---- MODULE Spec2Model ----
(***************************************************************************)
(* A model of the text layout core of cosmic-text: the attribute span map  *)
(* (src/attrs.rs, AttrsList over a rangemap::RangeMap) and the layout       *)
(* buffer (src/buffer.rs, TextLayout).                                      *)
(***************************************************************************)
EXTENDS Integers, Sequences, FiniteSets, TLC

(***************************************************************************)
(* Bounds of the model.                                                    *)
(***************************************************************************)
\* byte offsets used as span boundaries and split points are 0..MaxOff
MaxOff == 4
\* longest text handed to set_text when the attribute carving is examined
MaxTextLen == 4
\* the attribute maps handed to set_text have their spans in 0..MaxSpanOff
MaxSpanOff == 3
\* longest text handed to set_text when the buffer operations are examined
MaxBufLen == 3
\* most pieces an input of parse_list is put together from
MaxPieces == 4

(***************************************************************************)
(* Values.                                                                 *)
(***************************************************************************)
\* Option::None
NONE == "NONE"

\* attribute values: the value the editor-test example and TextLayout::new
\* use as default, and one other value
AttrVals == {"default", "bold"}

Min(a, b) == IF a <= b THEN a ELSE b

Max(a, b) == IF a >= b THEN a ELSE b

(***************************************************************************)
(* rangemap::RangeMap<usize, AttrsOwned> as AttrsList uses it.  A map is   *)
(* the set of its stored (range, value) entries; iteration is by start.    *)
(***************************************************************************)
Span(s, e, v) == [start |-> s, end |-> e, val |-> v]

\* RangeMap::new()
RM_new == {}

\* ranges a and [s, e) share at least one offset
Overlaps(a, s, e) == a.start < e /\ s < a.end

\* ranges a and [s, e) overlap or are adjacent
Touches(a, s, e) == a.start <= e /\ s <= a.end

\* RangeMap::get(&index): the stored value of an entry holding index
RM_get(spans, index) ==
    IF \E a \in spans : a.start <= index /\ index < a.end
    THEN (CHOOSE a \in spans : a.start <= index /\ index < a.end).val
    ELSE NONE

\* RangeMap::get_key_value(&index): an Option, <<>> for None and <<entry>>
\* for Some
RM_get_key_value(spans, index) ==
    IF \E a \in spans : a.start <= index /\ index < a.end
    THEN <<CHOOSE a \in spans : a.start <= index /\ index < a.end>>
    ELSE <<>>

\* RangeMap::insert(s..e, v), for s < e: stored entries are cut back to the
\* parts outside [s, e); entries with an equal value that overlap or touch
\* the new range are merged into it.
RM_insert(spans, s, e, v) ==
    LET same == {a \in spans : a.val = v /\ Touches(a, s, e)}
        cut  == {a \in spans : a.val # v /\ Overlaps(a, s, e)}
        keep == (spans \ same) \ cut
        lo   == IF \E a \in same : a.start < s
                THEN (CHOOSE a \in same : \A b \in same : a.start <= b.start).start
                ELSE s
        hi   == IF \E a \in same : a.end > e
                THEN (CHOOSE a \in same : \A b \in same : a.end >= b.end).end
                ELSE e
        left  == {Span(a.start, s, a.val) : a \in {b \in cut : b.start < s}}
        right == {Span(e, a.end, a.val) : a \in {b \in cut : b.end > e}}
    IN  keep \cup left \cup right \cup {Span(lo, hi, v)}

\* RangeMap::remove(s..e), for s < e: stored entries are cut back to the
\* parts outside [s, e)
RM_remove(spans, s, e) ==
    LET cut   == {a \in spans : Overlaps(a, s, e)}
        left  == {Span(a.start, s, a.val) : a \in {b \in cut : b.start < s}}
        right == {Span(e, a.end, a.val) : a \in {b \in cut : b.end > e}}
    IN  (spans \ cut) \cup left \cup right

\* RangeMap::iter(): the entries ordered by range start
RECURSIVE RM_iter(_)
RM_iter(spans) ==
    IF spans = {} THEN <<>>
    ELSE LET first == CHOOSE a \in spans : \A b \in spans : a.start <= b.start
         IN  <<first>> \o RM_iter(spans \ {first})

(***************************************************************************)
(* AttrsList (src/attrs.rs).                                               *)
(***************************************************************************)
\* AttrsList::new(defaults)
AttrsList_new(defaults) == [defaults |-> defaults, spans |-> RM_new]

\* AttrsList::spans()
spans_of(l) == RM_iter(l.spans)

\* AttrsList::add_span(range, attrs).  A zero-width range returns early; a
\* reversed range reaches RangeMap::insert, whose assertion aborts.
add_span_panics(s, e) == s > e

add_span_whole(l, s, e, v) ==
    IF s = e THEN l
    ELSE [l EXCEPT !.spans =
              {a \in l.spans : ~Overlaps(a, s, e)} \cup {Span(s, e, v)}]

add_span_unguarded(l, s, e, v) ==
    [l EXCEPT !.spans = RM_insert(l.spans, s, e, v)]

add_span(l, s, e, v) ==
    IF s = e THEN l
    ELSE [l EXCEPT !.spans = RM_insert(l.spans, s, e, v)]

\* AttrsList::get_span(index)
get_span(l, index) ==
    LET v == RM_get(l.spans, index)
    IN  IF v # NONE THEN v ELSE l.defaults

\* first loop of split_off: the keys to remove or fix, in iteration order,
\* each with its resize flag
RECURSIVE split_removes(_, _)
split_removes(it, index) ==
    IF it = <<>> THEN <<>>
    ELSE LET a == Head(it)
             rest == split_removes(Tail(it), index)
         IN  IF a.end <= index THEN rest
             ELSE IF a.start >= index
                  THEN <<[key |-> a, resize |-> FALSE]>> \o rest
                  ELSE <<[key |-> a, resize |-> TRUE]>> \o rest

\* body of the second loop of split_off for one collected key r; st = [self,
\* new, panic], panic once expect("attrs span not found") has failed
split_step_shifted(r, index, st) ==
    LET found == RM_get_key_value(st.self, r.key.start)
        kv == found[1]
        removed == RM_remove(st.self, r.key.start, r.key.end)
    IN  IF found = <<>>
        THEN [st EXCEPT !.panic = TRUE]
        ELSE IF r.resize
        THEN [self |-> RM_insert(removed, kv.start, index, kv.val),
              new  |-> RM_insert(st.new, 0, kv.end - kv.start, kv.val),
              panic |-> FALSE]
        ELSE [self |-> removed,
              new  |-> RM_insert(st.new, kv.start - index,
                                 kv.end - index, kv.val),
              panic |-> FALSE]

split_step(r, index, st) ==
    LET found == RM_get_key_value(st.self, r.key.start)
        kv == found[1]
        removed == RM_remove(st.self, r.key.start, r.key.end)
    IN  IF found = <<>>
        THEN [st EXCEPT !.panic = TRUE]
        ELSE IF r.resize
        THEN [self |-> RM_insert(removed, kv.start, index, kv.val),
              new  |-> RM_insert(st.new, 0, kv.end - index, kv.val),
              panic |-> FALSE]
        ELSE [self |-> removed,
              new  |-> RM_insert(st.new, kv.start - index,
                                 kv.end - index, kv.val),
              panic |-> FALSE]

\* second loop of split_off over the collected keys
RECURSIVE split_apply(_, _, _)
split_apply(removes, index, st) ==
    IF removes = <<>> \/ st.panic THEN st
    ELSE split_apply(Tail(removes), index, split_step(Head(removes), index, st))

\* AttrsList::split_off(index): [self |-> the list afterwards, new |-> the
\* list returned, panic |-> whether the call aborted]
split_off(l, index) ==
    LET st == split_apply(split_removes(RM_iter(l.spans), index), index,
                          [self |-> l.spans, new |-> RM_new, panic |-> FALSE])
    IN  [self |-> [l EXCEPT !.spans = st.self],
         new  |-> [defaults |-> l.defaults, spans |-> st.new],
         panic |-> st.panic]

(***************************************************************************)
(* i32 arithmetic (the scroll offset and the layout line counts).  A build *)
(* with overflow checks panics on overflow, a build without them wraps.    *)
(***************************************************************************)
\* i32::MAX
I32_MAX == 2147483647

I32_MIN == (-I32_MAX) - 1

\* a + b leaves the i32 range
AddOverflows(a, b) ==
    \/ b > 0 /\ a > I32_MAX - b
    \/ b < 0 /\ a < I32_MIN - b

\* a + b modulo 2^32, computed without leaving the i32 range
WrappingAdd(a, b) ==
    IF b > 0 /\ a > I32_MAX - b
    THEN ((a - I32_MAX) - 1) + ((b - I32_MAX) - 1)
    ELSE IF b < 0 /\ a < I32_MIN - b
    THEN ((a + I32_MAX) + 1) + ((b + I32_MAX) + 1)
    ELSE a + b

\* a - b leaves the i32 range
SubOverflows(a, b) ==
    \/ b < 0 /\ a > I32_MAX + b
    \/ b > 0 /\ a < I32_MIN + b

\* a - b modulo 2^32, computed without leaving the i32 range
WrappingSub(a, b) ==
    IF b < 0 /\ a > I32_MAX + b
    THEN ((a - I32_MAX) - 1) - ((b + I32_MAX) + 1)
    ELSE IF b > 0 /\ a < I32_MIN + b
    THEN ((a + I32_MAX) + 1) - ((b - I32_MAX) - 1)
    ELSE a - b

(***************************************************************************)
(* Text.  A text is a sequence of bytes; "\n" and "\r" are the line feed   *)
(* and the carriage return, every other byte is a one-byte glyph.          *)
(***************************************************************************)
LF == "\n"

CR == "\r"

\* str::split('\n'): the pieces between line feeds, at least one
RECURSIVE split(_, _)
split(text, cur) ==
    IF text = <<>> THEN <<cur>>
    ELSE IF Head(text) = LF
         THEN <<cur>> \o split(Tail(text), <<>>)
         ELSE split(Tail(text), Append(cur, Head(text)))

\* str::split_terminator('\n'): as split, without a final empty piece
split_terminator(text) ==
    LET pieces == split(text, <<>>)
    IN  IF pieces[Len(pieces)] = <<>>
        THEN SubSeq(pieces, 1, Len(pieces) - 1)
        ELSE pieces

(***************************************************************************)
(* The Line Record (TextLayoutLine), its shaping and its wrapping.         *)
(***************************************************************************)
\* f32::MAX, the initial width and height: a value above every other size
F32_MAX == 1000000

\* pixel width of every glyph
GlyphW == 1

\* line_ascent + line_descent of every Layout Line
LineH == 1

WrapModes == {"None", "Glyph", "Word"}

\* TextLayoutLine::new(text, attrs_list, start)
TextLayoutLine_new(text, attrs, start) ==
    [text |-> text, attrs_list |-> attrs, start |-> start,
     shape_opt |-> <<>>, layout_opt |-> <<>>]

\* the shaping capability: the ShapeLine of a text
ShapeOf(text) == [rtl |-> FALSE, len |-> Len(text)]

\* glyphs that fit in one Layout Line of the given width
PerLine(width, wrap) ==
    IF wrap = "None" THEN F32_MAX ELSE Max(1, width \div GlyphW)

\* ShapeLine::layout(width, wrap): the Layout Lines, each the byte range
\* [start, end) of its glyphs; an empty line gives one empty Layout Line
RECURSIVE WrapFrom(_, _, _)
WrapFrom(from, len, per) ==
    IF len - from <= per THEN <<[start |-> from, end |-> len]>>
    ELSE <<[start |-> from, end |-> from + per]>> \o WrapFrom(from + per, len, per)

ShapeLine_layout(shape, width, wrap) == WrapFrom(0, shape.len, PerLine(width, wrap))

\* TextLayoutLine::shape(): shapes unless a shape is cached; a new shape
\* drops the cached layout
TextLayoutLine_shape(line) ==
    IF line.shape_opt = <<>>
    THEN [line EXCEPT !.shape_opt = <<ShapeOf(line.text)>>, !.layout_opt = <<>>]
    ELSE line

\* TextLayoutLine::layout(width, wrap): wraps unless a layout is cached
TextLayoutLine_layout(line, width, wrap) ==
    IF line.layout_opt = <<>>
    THEN LET shaped == TextLayoutLine_shape(line)
         IN  [shaped EXCEPT !.layout_opt =
                  <<ShapeLine_layout(shaped.shape_opt[1], width, wrap)>>]
    ELSE line

\* TextLayoutLine::reset_layout()
TextLayoutLine_reset_layout(line) == [line EXCEPT !.layout_opt = <<>>]

\* TextLayoutLine::reset()
TextLayoutLine_reset(line) == [line EXCEPT !.shape_opt = <<>>, !.layout_opt = <<>>]

(***************************************************************************)
(* TextLayout (src/buffer.rs).  A buffer value b has the fields lines,     *)
(* width, height, scroll, redraw, wrap, and panicked: TRUE once a call has *)
(* aborted.                                                                *)
(***************************************************************************)
\* TextLayout::relayout
relayout_keeps_layout(b) ==
    [b EXCEPT !.lines = [i \in 1..Len(b.lines) |->
                            IF b.lines[i].shape_opt # <<>>
                            THEN TextLayoutLine_layout(b.lines[i], b.width, b.wrap)
                            ELSE b.lines[i]],
              !.redraw = TRUE]

relayout(b) ==
    [b EXCEPT !.lines = [i \in 1..Len(b.lines) |->
                            IF b.lines[i].shape_opt # <<>>
                            THEN TextLayoutLine_layout(
                                     TextLayoutLine_reset_layout(b.lines[i]),
                                     b.width, b.wrap)
                            ELSE b.lines[i]],
              !.redraw = TRUE]

\* the break of the loop of shape_until
shape_until_break_late(total_layout, lines) == total_layout > lines

shape_until_break(total_layout, lines) == total_layout >= lines

\* the loop of shape_until from record i on: [lines, total, reshaped]
RECURSIVE shape_until_loop(_, _, _, _, _, _, _)
shape_until_loop(ls, i, total_layout, reshaped, lines, width, wrap) ==
    IF i > Len(ls) \/ shape_until_break(total_layout, lines)
    THEN [lines |-> ls, total |-> total_layout, reshaped |-> reshaped]
    ELSE LET line == TextLayoutLine_layout(ls[i], width, wrap)
         IN  shape_until_loop([ls EXCEPT ![i] = line], i + 1,
                              total_layout + Len(line.layout_opt[1]),
                              IF ls[i].shape_opt = <<>> THEN reshaped + 1 ELSE reshaped,
                              lines, width, wrap)

\* TextLayout::shape_until(lines): [buf |-> the buffer afterwards, ret |-> the
\* value returned]
shape_until(b, lines) ==
    LET r == shape_until_loop(b.lines, 1, 0, 0, lines, b.width, b.wrap)
    IN  [buf |-> [b EXCEPT !.lines = r.lines,
                           !.redraw = IF r.reshaped > 0 THEN TRUE ELSE b.redraw],
         ret |-> r.total]

\* TextLayout::shape_until_scroll; checks = the build checks overflow
shape_until_scroll(b, checks) ==
    LET lines == I32_MAX
    IN  IF AddOverflows(b.scroll, lines) /\ checks
        THEN [b EXCEPT !.panicked = TRUE]
        ELSE LET scroll_end == WrappingAdd(b.scroll, lines)
                 r == shape_until(b, scroll_end)
                 total_layout == r.ret
             IN  [r.buf EXCEPT !.scroll =
                      Max(0, Min(total_layout - (lines - 1), r.buf.scroll))]

\* TextLayout::set_scroll(scroll)
set_scroll(b, scroll) ==
    IF scroll # b.scroll
    THEN [b EXCEPT !.scroll = scroll, !.redraw = TRUE]
    ELSE b

set_wrap_no_relayout(b, wrap, checks) ==
    IF wrap # b.wrap
    THEN shape_until_scroll([b EXCEPT !.wrap = wrap], checks)
    ELSE b

\* TextLayout::set_wrap(wrap)
set_wrap(b, wrap, checks) ==
    IF wrap # b.wrap
    THEN shape_until_scroll(relayout([b EXCEPT !.wrap = wrap]), checks)
    ELSE b

\* TextLayout::set_size(width, height)
set_size(b, width, height, checks) ==
    LET clamped_width == Max(width, 0)
        clamped_height == Max(height, 0)
    IN  IF clamped_width # b.width \/ clamped_height # b.height
        THEN shape_until_scroll(
                 relayout([b EXCEPT !.width = clamped_width,
                                    !.height = clamped_height]), checks)
        ELSE b

\* Cursor::new_with_affinity(line, index, affinity)
Cursor_new_with_affinity(line, index, affinity) ==
    [line |-> line, index |-> index, affinity |-> affinity]

\* the glyphs of a Layout Line, one per byte, left to right
GlyphsOf(layout_line) ==
    [g \in 1..(layout_line.end - layout_line.start) |->
        [start |-> layout_line.start + g - 1, end |-> layout_line.start + g,
         ltr |-> TRUE, x |-> (g - 1) * GlyphW, w |-> GlyphW]]

\* layout_cursor with the two boundary cursors of every glyph exchanged
layout_cursor_swapped(b, cursor) ==
    LET layout == b.lines[cursor.line + 1].layout_opt[1]
        Left(gl) == IF gl.ltr
                    THEN Cursor_new_with_affinity(cursor.line, gl.end, "Before")
                    ELSE Cursor_new_with_affinity(cursor.line, gl.start, "After")
        Right(gl) == IF gl.ltr
                     THEN Cursor_new_with_affinity(cursor.line, gl.start, "After")
                     ELSE Cursor_new_with_affinity(cursor.line, gl.end, "Before")
        slots(li) ==
            UNION {{[layout |-> li - 1, glyph |-> gi - 1, at |-> 2 * gi,
                     c |-> Left(GlyphsOf(layout[li])[gi])],
                    [layout |-> li - 1, glyph |-> gi, at |-> 2 * gi + 1,
                     c |-> Right(GlyphsOf(layout[li])[gi])]} :
                   gi \in 1..Len(GlyphsOf(layout[li]))}
        hits == {h \in UNION {slots(li) : li \in 1..Len(layout)} : h.c = cursor}
    IN  IF hits = {}
        THEN [line |-> cursor.line, layout |-> 0, glyph |-> 0]
        ELSE LET h == CHOOSE x \in hits : \A y \in hits :
                          \/ x.layout < y.layout
                          \/ x.layout = y.layout /\ x.at <= y.at
             IN  [line |-> cursor.line, layout |-> h.layout, glyph |-> h.glyph]

\* TextLayout::layout_cursor(cursor) for a line that exists and has a layout:
\* the first match in scan order (Layout Lines, then glyphs, left boundary
\* before right), else (line, 0, 0)
layout_cursor(b, cursor) ==
    LET layout == b.lines[cursor.line + 1].layout_opt[1]
        Left(gl) == IF gl.ltr
                    THEN Cursor_new_with_affinity(cursor.line, gl.start, "After")
                    ELSE Cursor_new_with_affinity(cursor.line, gl.end, "Before")
        Right(gl) == IF gl.ltr
                     THEN Cursor_new_with_affinity(cursor.line, gl.end, "Before")
                     ELSE Cursor_new_with_affinity(cursor.line, gl.start, "After")
        slots(li) ==
            UNION {{[layout |-> li - 1, glyph |-> gi - 1, at |-> 2 * gi,
                     c |-> Left(GlyphsOf(layout[li])[gi])],
                    [layout |-> li - 1, glyph |-> gi, at |-> 2 * gi + 1,
                     c |-> Right(GlyphsOf(layout[li])[gi])]} :
                   gi \in 1..Len(GlyphsOf(layout[li]))}
        hits == {h \in UNION {slots(li) : li \in 1..Len(layout)} : h.c = cursor}
    IN  IF hits = {}
        THEN [line |-> cursor.line, layout |-> 0, glyph |-> 0]
        ELSE LET h == CHOOSE x \in hits : \A y \in hits :
                          \/ x.layout < y.layout
                          \/ x.layout = y.layout /\ x.at <= y.at
             IN  [line |-> cursor.line, layout |-> h.layout, glyph |-> h.glyph]

\* a call of layout_cursor that answers the fallback where the code panics
layout_cursor_call_lenient(b, cursor) ==
    IF cursor.line >= Len(b.lines) \/ b.lines[cursor.line + 1].layout_opt = <<>>
    THEN [panicked |-> FALSE,
          ret |-> <<[line |-> cursor.line, layout |-> 0, glyph |-> 0]>>]
    ELSE [panicked |-> FALSE, ret |-> <<layout_cursor(b, cursor)>>]

\* a call of TextLayout::layout_cursor(cursor) on any buffer: indexing
\* self.lines[cursor.line] panics when the line does not exist, and
\* expect("layout not found") panics when the line has no cached layout
layout_cursor_call(b, cursor) ==
    IF cursor.line >= Len(b.lines) THEN [panicked |-> TRUE, ret |-> <<>>]
    ELSE IF b.lines[cursor.line + 1].layout_opt = <<>>
    THEN [panicked |-> TRUE, ret |-> <<>>]
    ELSE [panicked |-> FALSE, ret |-> <<layout_cursor(b, cursor)>>]

\* the loop of shape_until_cursor from record i on (line_i = i - 1):
\* [lines, layout_i, reshaped]
RECURSIVE shape_until_cursor_loop(_, _, _, _, _)
shape_until_cursor_loop(b, i, layout_i, reshaped, cursor) ==
    IF i > Len(b.lines) \/ i - 1 > cursor.line
    THEN [buf |-> b, layout_i |-> layout_i, reshaped |-> reshaped]
    ELSE LET line == TextLayoutLine_layout(b.lines[i], b.width, b.wrap)
             b2 == [b EXCEPT !.lines[i] = line]
             re == IF b.lines[i].shape_opt = <<>> THEN reshaped + 1 ELSE reshaped
             lc == layout_cursor_call(b2, cursor)
         IN  IF i - 1 = cursor.line
             THEN IF lc.panicked
                  THEN [buf |-> [b2 EXCEPT !.panicked = TRUE],
                        layout_i |-> layout_i, reshaped |-> re]
                  ELSE [buf |-> b2,
                        layout_i |-> layout_i + lc.ret[1].layout,
                        reshaped |-> re]
             ELSE shape_until_cursor_loop(b2, i + 1,
                                          layout_i + Len(line.layout_opt[1]),
                                          re, cursor)

\* TextLayout::shape_until_cursor(cursor)
shape_until_cursor(b, cursor, checks) ==
    LET r == shape_until_cursor_loop(b, 1, 0, 0, cursor)
        b1 == [r.buf EXCEPT !.redraw = IF r.reshaped > 0 THEN TRUE ELSE @]
        layout_i == r.layout_i
        lines == I32_MAX
    IN  IF r.buf.panicked THEN r.buf
        ELSE IF layout_i < b1.scroll
        THEN shape_until_scroll([b1 EXCEPT !.scroll = layout_i], checks)
        ELSE IF AddOverflows(b1.scroll, lines) /\ checks
        THEN [b1 EXCEPT !.panicked = TRUE]
        ELSE IF layout_i >= WrappingAdd(b1.scroll, lines)
        THEN IF SubOverflows(layout_i, lines - 1) /\ checks
             THEN [b1 EXCEPT !.panicked = TRUE]
             ELSE shape_until_scroll(
                      [b1 EXCEPT !.scroll = WrappingSub(layout_i, lines - 1)], checks)
        ELSE shape_until_scroll(b1, checks)

\* TextLayout::line_shape(line_i): shapes the line if it exists
line_shape(b, line_i) ==
    IF line_i < Len(b.lines)
    THEN [b EXCEPT !.lines[line_i + 1] = TextLayoutLine_shape(@)]
    ELSE b

\* TextLayout::line_layout(line_i): lays the line out if it exists
line_layout(b, line_i) ==
    IF line_i < Len(b.lines)
    THEN [b EXCEPT !.lines[line_i + 1] = TextLayoutLine_layout(@, b.width, b.wrap)]
    ELSE b

(***************************************************************************)
(* The visible runs: LayoutRunIter and TextLayout::layout_runs.            *)
(***************************************************************************)
\* glyph_ascent and glyph_descent of every Layout Line; they fill the line
\* height, so a run's line_y is the bottom of its band
GlyphAscent == 1

GlyphDescent == 0

\* the sum, over the records, of the length of the cached layout (0 without)
RECURSIVE total_layout_lines(_, _)
total_layout_lines(ls, i) ==
    IF i > Len(ls) THEN 0
    ELSE (IF ls[i].layout_opt = <<>> THEN 0 ELSE Len(ls[i].layout_opt[1]))
         + total_layout_lines(ls, i + 1)

\* LayoutRunIter::new(buffer)
LayoutRunIter_new(b) ==
    LET total == total_layout_lines(b.lines, 1)
        scroll == IF b.scroll < 0 THEN 0 ELSE b.scroll
        top_cropped_layout_lines == IF total >= scroll THEN total - scroll ELSE 0
        maximum_lines == I32_MAX
        bottom_cropped_layout_lines ==
            IF top_cropped_layout_lines > maximum_lines
            THEN maximum_lines ELSE top_cropped_layout_lines
    IN  [line_i |-> 0, layout_i |-> 0,
         remaining_len |-> bottom_cropped_layout_lines,
         line_y |-> 0, total_layout |-> 0]

\* the LayoutRun built from a Layout Line of record line_i
LayoutRun_row_index(line_i, shape, layout_line, line_y) ==
    LET line_height == LineH
        offset == (line_height - (GlyphAscent + GlyphDescent)) \div 2
    IN  [line_i |-> (line_y \div LineH) - 1, rtl |-> shape.rtl,
         glyphs |-> GlyphsOf(layout_line),
         line_y |-> (line_y - offset) - GlyphDescent,
         line_w |-> (layout_line.end - layout_line.start) * GlyphW,
         glyph_ascent |-> GlyphAscent, glyph_descent |-> GlyphDescent,
         line_height |-> line_height]

LayoutRun(line_i, shape, layout_line, line_y) ==
    LET line_height == LineH
        offset == (line_height - (GlyphAscent + GlyphDescent)) \div 2
    IN  [line_i |-> line_i, rtl |-> shape.rtl,
         glyphs |-> GlyphsOf(layout_line),
         line_y |-> (line_y - offset) - GlyphDescent,
         line_w |-> (layout_line.end - layout_line.start) * GlyphW,
         glyph_ascent |-> GlyphAscent, glyph_descent |-> GlyphDescent,
         line_height |-> line_height]

\* the Layout Line counted total_layout is one of the first scroll ones
scrolled_late(total_layout, scroll) == total_layout <= scroll

scrolled(total_layout, scroll) == total_layout < scroll

\* the running offset has passed the viewport height
past_height_late(line_y, height) == line_y > height + LineH

past_height(line_y, height) == line_y > height

\* LayoutRunIter::next: [it |-> the iterator afterwards, item |-> <<>> for
\* None, <<run>> for Some(run)]
RECURSIVE LayoutRunIter_next(_, _)
LayoutRunIter_next(b, it) ==
    IF it.line_i >= Len(b.lines) THEN [it |-> it, item |-> <<>>]
    ELSE LET line == b.lines[it.line_i + 1]
         IN  IF line.shape_opt = <<>> \/ line.layout_opt = <<>>
             THEN [it |-> it, item |-> <<>>]
             ELSE IF it.layout_i >= Len(line.layout_opt[1])
             THEN LayoutRunIter_next(
                      b, [it EXCEPT !.line_i = @ + 1, !.layout_i = 0])
             ELSE LET layout_line == line.layout_opt[1][it.layout_i + 1]
                      it1 == [it EXCEPT !.layout_i = @ + 1,
                                        !.total_layout = @ + 1]
                      it2 == [it1 EXCEPT !.line_y = @ + LineH]
                  IN  IF scrolled(it.total_layout, b.scroll)
                      THEN LayoutRunIter_next(b, it1)
                      ELSE IF past_height(it2.line_y, b.height)
                      THEN [it |-> it2, item |-> <<>>]
                      ELSE [it |-> [it2 EXCEPT !.remaining_len = @ - 1],
                            item |-> <<LayoutRun(it.line_i, line.shape_opt[1],
                                                 layout_line, it2.line_y)>>]

\* the runs a for loop over the iterator sees: up to the first None
RECURSIVE collect(_, _)
collect(b, it) ==
    LET r == LayoutRunIter_next(b, it)
    IN  IF r.item = <<>> THEN <<>>
        ELSE <<r.item[1]>> \o collect(b, r.it)

\* TextLayout::layout_runs(), iterated to its end
layout_runs(b) == collect(b, LayoutRunIter_new(b))

(***************************************************************************)
(* Hit testing: TextLayout::hit and TextLayout::hit_position.  Pixel       *)
(* coordinates are integers; an Option is <<>> or <<value>>.               *)
(***************************************************************************)
\* Cursor::new(line, index)
Cursor_new(line, index) == Cursor_new_with_affinity(line, index, "Before")

\* LayoutRun::cursor_from_glyph_right(glyph)
cursor_from_glyph_right(run, glyph) ==
    IF run.rtl
    THEN Cursor_new_with_affinity(run.line_i, glyph.start, "After")
    ELSE Cursor_new_with_affinity(run.line_i, glyph.end, "Before")

\* LayoutRun::cursor_from_glyph_left(glyph)
cursor_from_glyph_left(run, glyph) ==
    IF run.rtl
    THEN Cursor_new_with_affinity(run.line_i, glyph.end, "Before")
    ELSE Cursor_new_with_affinity(run.line_i, glyph.start, "After")

\* the derived order of Cursor: by line, then index, then affinity, with
\* Affinity::Before < Affinity::After
Cursor_le(a, b) ==
    \/ a.line < b.line
    \/ a.line = b.line /\ a.index < b.index
    \/ a.line = b.line /\ a.index = b.index
          /\ (a.affinity = "Before" \/ b.affinity = "After")

\* the glyph loop of LayoutRun::highlight from glyph g on; st = [x_start,
\* x_end], both Options
RECURSIVE highlight_loop(_, _, _, _, _)
highlight_loop(run, g, st, cursor_start, cursor_end) ==
    IF g > Len(run.glyphs) THEN st
    ELSE LET glyph == run.glyphs[g]
             rtl_factor == IF run.rtl THEN 1 ELSE 0
             ltr_factor == 1 - rtl_factor
             InRange(cursor) == /\ Cursor_le(cursor_start, cursor)
                                /\ Cursor_le(cursor, cursor_end)
             Mark(s, cursor, x) ==
                 IF InRange(cursor)
                 THEN [x_start |-> IF s.x_start = <<>> THEN <<x>> ELSE s.x_start,
                       x_end |-> <<x>>]
                 ELSE s
             st1 == Mark(st, cursor_from_glyph_left(run, glyph),
                         glyph.x + glyph.w * rtl_factor)
             st2 == Mark(st1, cursor_from_glyph_right(run, glyph),
                         glyph.x + glyph.w * ltr_factor)
         IN  highlight_loop(run, g + 1, st2, cursor_start, cursor_end)

\* LayoutRun::highlight(cursor_start, cursor_end): <<>> for None,
\* <<[x |-> x_left, w |-> width]>> for Some((x_left, width))
highlight(run, cursor_start, cursor_end) ==
    LET st == highlight_loop(run, 1, [x_start |-> <<>>, x_end |-> <<>>],
                             cursor_start, cursor_end)
    IN  IF st.x_start # <<>>
        THEN LET x_start == Min(st.x_start[1], st.x_end[1])
                 x_end == Max(st.x_start[1], st.x_end[1])
             IN  <<[x |-> x_start, w |-> x_end - x_start]>>
        ELSE <<>>

\* x >= left + w / 2.0
right_half(x, left, w) == 2 * (x - left) >= w

\* the branch of hit for the run whose band holds y: the first glyph whose
\* span [x, x + w] holds the point decides; a glyph is one grapheme cluster
hit_run(run, x) ==
    LET n == Len(run.glyphs)
        over == {gi \in 1..n : x >= run.glyphs[gi].x
                                /\ x <= run.glyphs[gi].x + run.glyphs[gi].w}
        before_first == n > 0 /\ (\/ run.rtl /\ x > run.glyphs[1].x
                                  \/ ~run.rtl /\ x < 0)
    IN  IF over # {}
        THEN LET gi == CHOOSE g \in over : \A h \in over : g <= h
                 glyph == run.glyphs[gi]
             IN  IF right_half(x, glyph.x, glyph.w) # ~glyph.ltr
                 THEN Cursor_new_with_affinity(run.line_i, glyph.end, "Before")
                 ELSE Cursor_new_with_affinity(run.line_i, glyph.start, "After")
        ELSE IF before_first
        THEN Cursor_new_with_affinity(run.line_i, run.glyphs[1].start, "After")
        ELSE IF n > 0
        THEN Cursor_new_with_affinity(run.line_i, run.glyphs[n].end, "Before")
        ELSE Cursor_new(run.line_i, 0)

\* the loop of hit over the runs from run k on
RECURSIVE hit_loop(_, _, _, _, _, _)
hit_loop(runs, k, first_run, new_cursor_opt, x, y) ==
    IF k > Len(runs) THEN new_cursor_opt
    ELSE LET run == runs[k]
             line_y == run.line_y
         IN  IF first_run /\ y < line_y - run.line_height
             THEN hit_loop(runs, k + 1, FALSE, <<Cursor_new(run.line_i, 0)>>, x, y)
             ELSE IF y >= line_y - run.line_height /\ y < line_y
             THEN <<hit_run(run, x)>>
             ELSE IF k = Len(runs) /\ y > run.line_y
             THEN hit_loop(runs, k + 1, first_run,
                           <<IF Len(run.glyphs) > 0
                             THEN cursor_from_glyph_right(run, run.glyphs[Len(run.glyphs)])
                             ELSE Cursor_new(run.line_i, 0)>>, x, y)
             ELSE hit_loop(runs, k + 1, first_run, new_cursor_opt, x, y)

\* TextLayout::hit(x, y)
hit(b, x, y) == hit_loop(layout_runs(b), 1, TRUE, <<>>, x, y)

\* HitPosition { line, point, .. }: the run index and the pixel point
HitPosition_new(line, x, y) == [line |-> line, x |-> x, y |-> y]

\* the inner loop of hit_position over the glyphs of a run from glyph g on;
\* st = [last_line, last_end, offset, last_glyph_width, last_position, ret]
RECURSIVE hit_position_glyphs(_, _, _, _, _)
hit_position_glyphs(run, line, g, st, idx) ==
    IF g > Len(run.glyphs) THEN st
    ELSE LET glyph == run.glyphs[g]
             here == HitPosition_new(line, glyph.x, run.line_y)
         IN  IF glyph.start + st.offset > idx
             THEN [st EXCEPT !.ret = <<[st.last_position EXCEPT
                                          !.x = @ + st.last_glyph_width]>>]
             ELSE IF glyph.start + st.offset <= idx /\ idx < glyph.end + st.offset
             THEN [st EXCEPT !.last_end = glyph.end,
                             !.last_glyph_width = glyph.w,
                             !.last_position = here,
                             !.ret = <<here>>]
             ELSE hit_position_glyphs(run, line, g + 1,
                      [st EXCEPT !.last_end = glyph.end,
                                 !.last_glyph_width = glyph.w,
                                 !.last_position = here], idx)

\* the outer loop of hit_position over the runs from run k on
RECURSIVE hit_position_runs(_, _, _, _)
hit_position_runs(runs, k, st, idx) ==
    IF k > Len(runs) \/ st.ret # <<>> THEN st
    ELSE LET run == runs[k]
             st1 == IF run.line_i > st.last_line
                    THEN [st EXCEPT !.last_line = run.line_i,
                                    !.offset = @ + st.last_end + 1]
                    ELSE st
         IN  hit_position_runs(runs, k + 1,
                 hit_position_glyphs(run, k - 1, 1, st1, idx), idx)

\* TextLayout::hit_position(idx)
hit_position(b, idx) ==
    LET st == hit_position_runs(layout_runs(b), 1,
                  [last_line |-> 0, last_end |-> 0, offset |-> 0,
                   last_glyph_width |-> 0,
                   last_position |-> HitPosition_new(0, 0, 0), ret |-> <<>>], idx)
    IN  IF st.ret # <<>> THEN st.ret[1]
        ELSE IF idx > 0
        THEN [st.last_position EXCEPT !.x = @ + st.last_glyph_width]
        ELSE HitPosition_new(0, 0, 0)

\* HitPoint { line, index, is_inside }
HitPoint_new(line, index, is_inside) ==
    [line |-> line, index |-> index, is_inside |-> is_inside]

\* the branch of hit_point for the run whose band holds y, with every landing
\* on the left boundary of the glyph
hit_point_run_left(run, x) ==
    LET n == Len(run.glyphs)
        over == {gi \in 1..n : x >= run.glyphs[gi].x
                                /\ x <= run.glyphs[gi].x + run.glyphs[gi].w}
        new_cursor_glyph ==
            IF over # {} THEN (CHOOSE g \in over : \A h \in over : g <= h) - 1
            ELSE n
    IN  IF new_cursor_glyph < n
        THEN HitPoint_new(run.line_i, run.glyphs[new_cursor_glyph + 1].start, TRUE)
        ELSE HitPoint_new(run.line_i, IF n > 0 THEN run.glyphs[n].end ELSE 0,
                          FALSE)

\* the branch of hit_point for the run whose band holds y: new_cursor_glyph
\* is the glyph count unless the point is before the first glyph or a span
\* [x, x + w] holds it; run.glyphs.get(new_cursor_glyph) decides is_inside
hit_point_run(run, x) ==
    LET n == Len(run.glyphs)
        over == {gi \in 1..n : x >= run.glyphs[gi].x
                                /\ x <= run.glyphs[gi].x + run.glyphs[gi].w}
        before_first == n > 0 /\ (\/ run.rtl /\ x > run.glyphs[1].x
                                  \/ ~run.rtl /\ x < 0)
        new_cursor_glyph ==
            IF over # {} THEN (CHOOSE g \in over : \A h \in over : g <= h) - 1
            ELSE IF before_first THEN 0
            ELSE n
        new_cursor_char ==
            IF over = {} THEN 0
            ELSE LET glyph == run.glyphs[new_cursor_glyph + 1]
                 IN  IF right_half(x, glyph.x, glyph.w) # ~glyph.ltr
                     THEN glyph.end - glyph.start
                     ELSE 0
    IN  IF new_cursor_glyph < n
        THEN HitPoint_new(run.line_i,
                          run.glyphs[new_cursor_glyph + 1].start + new_cursor_char,
                          TRUE)
        ELSE HitPoint_new(run.line_i, IF n > 0 THEN run.glyphs[n].end ELSE 0,
                          FALSE)

\* the loop of hit_point over the runs from run k on
RECURSIVE hit_point_loop(_, _, _, _, _, _)
hit_point_loop(runs, k, first_run, hit_point, x, y) ==
    IF k > Len(runs) THEN hit_point
    ELSE LET run == runs[k]
             line_y == run.line_y
         IN  IF first_run /\ y < line_y - run.line_height
             THEN hit_point_loop(runs, k + 1, FALSE,
                      [hit_point EXCEPT !.line = run.line_i, !.index = 0], x, y)
             ELSE IF y >= line_y - run.line_height /\ y < line_y
             THEN hit_point_run(run, x)
             ELSE IF k = Len(runs) /\ y > run.line_y
             THEN LET new_cursor ==
                          IF Len(run.glyphs) > 0
                          THEN cursor_from_glyph_right(run,
                                   run.glyphs[Len(run.glyphs)])
                          ELSE Cursor_new(run.line_i, 0)
                  IN  hit_point_loop(runs, k + 1, first_run,
                          [hit_point EXCEPT !.line = new_cursor.line,
                                            !.index = new_cursor.index], x, y)
             ELSE hit_point_loop(runs, k + 1, first_run, hit_point, x, y)

\* TextLayout::hit_point(point)
hit_point(b, x, y) ==
    hit_point_loop(layout_runs(b), 1, TRUE, HitPoint_new(0, 0, FALSE), x, y)

\* the inner loop of line_col_position over the glyphs of a run from glyph g
\* on; st = [last_glyph, last_line, last_line_y, ret], last_glyph an Option
RECURSIVE line_col_position_glyphs(_, _, _, _, _, _)
line_col_position_glyphs(run, current_line, g, st, line, col) ==
    IF g > Len(run.glyphs) THEN st
    ELSE LET glyph == run.glyphs[g]
             at_last ==
                 HitPosition_new(st.last_line,
                                 IF st.last_glyph = <<>> THEN 0
                                 ELSE st.last_glyph[1].x + st.last_glyph[1].w,
                                 st.last_line_y)
         IN  IF line = run.line_i /\ glyph.start > col
             THEN [st EXCEPT !.ret = <<at_last>>]
             ELSE IF line = run.line_i /\ glyph.start <= col /\ col < glyph.end
             THEN [st EXCEPT !.ret = <<HitPosition_new(current_line, glyph.x,
                                                       run.line_y)>>]
             ELSE IF line # run.line_i /\ run.line_i > line
             THEN [st EXCEPT !.ret = <<at_last>>]
             ELSE line_col_position_glyphs(run, current_line, g + 1,
                      [st EXCEPT !.last_glyph = <<glyph>>], line, col)

\* the outer loop of line_col_position over the runs from run k on
RECURSIVE line_col_position_runs(_, _, _, _, _)
line_col_position_runs(runs, k, st, line, col) ==
    IF k > Len(runs) \/ st.ret # <<>> THEN st
    ELSE LET run == runs[k]
             st1 == line_col_position_glyphs(run, k - 1, 1, st, line, col)
         IN  IF st1.ret # <<>> THEN st1
             ELSE line_col_position_runs(runs, k + 1,
                      [st1 EXCEPT !.last_line = k - 1,
                                  !.last_line_y = run.line_y], line, col)

\* TextLayout::line_col_position(line, col)
line_col_position(b, line, col) ==
    LET st == line_col_position_runs(layout_runs(b), 1,
                  [last_glyph |-> <<>>, last_line |-> 0, last_line_y |-> 0,
                   ret |-> <<>>], line, col)
    IN  IF st.ret # <<>> THEN st.ret[1]
        ELSE HitPosition_new(st.last_line,
                             IF st.last_glyph = <<>> THEN 0
                             ELSE st.last_glyph[1].x + st.last_glyph[1].w,
                             st.last_line_y)

\* body of the loop of set_text for one piece of the text; st = [lines,
\* attrs, start_index, panic]
set_text_step_short_split(piece, st) ==
    LET l == Len(piece)
        had_r == l > 0 /\ piece[l] = CR
        line == IF had_r THEN SubSeq(piece, 1, l - 1) ELSE piece
        sp == split_off(st.attrs, Len(line) + 1)
    IN  [lines |-> Append(st.lines, TextLayoutLine_new(line, sp.self, st.start_index)),
         attrs |-> sp.new,
         start_index |-> st.start_index + l + 1 + (IF had_r THEN 1 ELSE 0),
         panic |-> sp.panic]

set_text_step(piece, st) ==
    LET l == Len(piece)
        had_r == l > 0 /\ piece[l] = CR
        line == IF had_r THEN SubSeq(piece, 1, l - 1) ELSE piece
        sp == split_off(st.attrs, Len(line) + 1 + (IF had_r THEN 1 ELSE 0))
    IN  [lines |-> Append(st.lines, TextLayoutLine_new(line, sp.self, st.start_index)),
         attrs |-> sp.new,
         start_index |-> st.start_index + l + 1 + (IF had_r THEN 1 ELSE 0),
         panic |-> sp.panic]

\* the loop of set_text over the pieces of the text
RECURSIVE set_text_loop(_, _)
set_text_loop(pieces, st) ==
    IF pieces = <<>> \/ st.panic THEN st
    ELSE set_text_loop(Tail(pieces), set_text_step(Head(pieces), st))

\* set_text without the push that leaves at least one line
set_text_no_push(b, text, attrs, checks) ==
    LET st == set_text_loop(split_terminator(text),
                            [lines |-> <<>>, attrs |-> attrs,
                             start_index |-> 0, panic |-> FALSE])
    IN  IF st.panic
        THEN [b EXCEPT !.lines = st.lines, !.panicked = TRUE]
        ELSE shape_until_scroll([b EXCEPT !.lines = st.lines, !.scroll = 0], checks)

\* TextLayout::set_text(text, attrs)
set_text(b, text, attrs, checks) ==
    LET st == set_text_loop(split_terminator(text),
                            [lines |-> <<>>, attrs |-> attrs,
                             start_index |-> 0, panic |-> FALSE])
        lines == IF st.lines = <<>>
                 THEN <<TextLayoutLine_new(<<>>, st.attrs, 0)>>
                 ELSE st.lines
    IN  IF st.panic
        THEN [b EXCEPT !.lines = st.lines, !.panicked = TRUE]
        ELSE shape_until_scroll([b EXCEPT !.lines = lines, !.scroll = 0], checks)

\* TextLayout::new()
TextLayout_new(checks) ==
    set_text([lines |-> <<>>, width |-> F32_MAX, height |-> F32_MAX,
              scroll |-> 0, redraw |-> FALSE, wrap |-> "Word",
              panicked |-> FALSE],
             <<>>, AttrsList_new("default"), checks)

(***************************************************************************)
(* Fonts: FontSystem (the font database behind its caches) and            *)
(* FontFallbackIter.  A font id is the name of the family of its face.     *)
(***************************************************************************)
\* the families of the platform lists and of the requests
Families == {"A", "B", "S1", "S2", "C1", "C2", "F1"}

\* a face of the database: "none" when no face of that family is installed,
\* "broken" when Font::new fails on the face, "ok" when it loads
FaceStates == {"none", "broken", "ok"}

\* platform::script_fallback(script, locale)
script_fallback(script) == IF script = "s" THEN <<"S1", "S2">> ELSE <<>>

\* platform::common_fallback()
common_fallback == <<"C1", "C2">>

\* platform::forbidden_fallback()
forbidden_fallback == <<"F1">>

\* an RwLock nobody holds
RwLock_new == [readers |-> {}, writer |-> <<>>]

\* read() and write() return at once only on a lock in these states
can_read(lock) == lock.writer = <<>>

can_write(lock) == lock.writer = <<>> /\ lock.readers = {}

\* an empty HashMap over the keys: no key present
HashMap_new(keys) == [k \in keys |-> [present |-> FALSE, value |-> <<>>]]

\* FontSystem::new_with_locale_and_db(locale, db); built and built_matches
\* count the runs of the two or_insert_with closures
FontSystem_new(db, attr_keys) ==
    [db |-> db,
     db_lock |-> RwLock_new,
     font_cache |-> HashMap_new(Families),
     font_cache_lock |-> RwLock_new,
     font_matches_cache |-> HashMap_new(attr_keys),
     font_matches_cache_lock |-> RwLock_new,
     built |-> [id \in Families |-> 0],
     built_matches |-> [k \in attr_keys |-> 0]]

\* FontSystem::query(families, attrs) for one family: the id of its face
query(fs, family) == IF fs.db[family] = "none" THEN <<>> ELSE <<family>>

\* Entry::or_insert_with runs its closure: the key is vacant
vacant_always(cache, key) == TRUE

vacant(cache, key) == ~cache[key].present

\* the closure of get_font: db.face(id)? and Font::new(face); the Arc it
\* makes is told apart by the number of the run that made it
load_font(fs, id) ==
    IF fs.db[id] = "ok" THEN <<[id |-> id, arc |-> fs.built[id] + 1]>> ELSE <<>>

\* the closure of get_font has run and its value is stored under id
font_cache_store(fs, id) ==
    [fs EXCEPT !.font_cache[id] = [present |-> TRUE,
                                   value |-> load_font(fs, id)],
               !.built[id] = @ + 1]

\* the write half of get_font: entry(id).or_insert_with(closure)
font_cache_insert(fs, id) ==
    IF vacant(fs.font_cache, id) THEN font_cache_store(fs, id) ELSE fs

\* FontSystem::get_font(id) run by one thread with no other thread about:
\* [fs |-> the font system afterwards, ret |-> <<>> for None, <<font>>]
get_font(fs, id) ==
    IF fs.font_cache[id].present
    THEN [fs |-> fs, ret |-> fs.font_cache[id].value]
    ELSE LET fs1 == font_cache_insert(fs, id)
         IN  [fs |-> fs1, ret |-> fs1.font_cache[id].value]

\* the closure of get_font_matches: the ids of the faces attrs matches; a
\* fingerprint is the set of families it asks for
collect_matches(fs, font_attrs) ==
    [ids |-> {id \in font_attrs : fs.db[id] # "none"},
     arc |-> fs.built_matches[font_attrs] + 1]

\* the closure of get_font_matches has run and its list is stored
font_matches_cache_store(fs, font_attrs) ==
    [fs EXCEPT !.font_matches_cache[font_attrs] =
                   [present |-> TRUE,
                    value |-> <<collect_matches(fs, font_attrs)>>],
               !.built_matches[font_attrs] = @ + 1]

\* FontFallbackIter::new(attrs, default_families, scripts)
FontFallbackIter_new(default_families, scripts) ==
    [default_families |-> default_families, default_i |-> 0,
     scripts |-> scripts, script_i |-> <<0, 0>>,
     common_i |-> 0, other_i |-> 0, end |-> FALSE]

\* one family of a loop of next: Some(font) when its query gives an id and
\* get_font a font; [fs, ret]
try_family(fs, family) ==
    IF query(fs, family) = <<>> THEN [fs |-> fs, ret |-> <<>>]
    ELSE get_font(fs, query(fs, family)[1])

\* the fourth loop of next, over the forbidden families, and its end
RECURSIVE next_forbidden(_, _)
next_forbidden(it, fs) ==
    IF it.other_i < Len(forbidden_fallback)
    THEN LET r == try_family(fs, forbidden_fallback[it.other_i + 1])
             it1 == [it EXCEPT !.other_i = @ + 1]
         IN  IF r.ret # <<>> THEN [it |-> it1, fs |-> r.fs, ret |-> r.ret]
             ELSE next_forbidden(it1, r.fs)
    ELSE [it |-> [it EXCEPT !.end = TRUE], fs |-> fs, ret |-> <<>>]

\* the third loop of next yielding a font without moving past its family
RECURSIVE next_common_again(_, _)
next_common_again(it, fs) ==
    IF it.common_i < Len(common_fallback)
    THEN LET r == try_family(fs, common_fallback[it.common_i + 1])
             it1 == [it EXCEPT !.common_i = @ + 1]
         IN  IF r.ret # <<>> THEN [it |-> it, fs |-> r.fs, ret |-> r.ret]
             ELSE next_common_again(it1, r.fs)
    ELSE next_forbidden(it, fs)

\* the third loop of next, over the common families
RECURSIVE next_common(_, _)
next_common(it, fs) ==
    IF it.common_i < Len(common_fallback)
    THEN LET r == try_family(fs, common_fallback[it.common_i + 1])
             it1 == [it EXCEPT !.common_i = @ + 1]
         IN  IF r.ret # <<>> THEN [it |-> it1, fs |-> r.fs, ret |-> r.ret]
             ELSE next_common(it1, r.fs)
    ELSE next_forbidden(it, fs)

\* the second loop of next, over the scripts and the families of each
RECURSIVE next_script(_, _)
next_script(it, fs) ==
    IF it.script_i[1] < Len(it.scripts)
    THEN LET script_families == script_fallback(it.scripts[it.script_i[1] + 1])
         IN  IF it.script_i[2] < Len(script_families)
             THEN LET r == try_family(fs, script_families[it.script_i[2] + 1])
                      it1 == [it EXCEPT !.script_i[2] = @ + 1]
                  IN  IF r.ret # <<>>
                      THEN [it |-> it1, fs |-> r.fs, ret |-> r.ret]
                      ELSE next_script(it1, r.fs)
             ELSE next_script([it EXCEPT !.script_i = <<@[1] + 1, 0>>], fs)
    ELSE next_common(it, fs)

\* the first loop of next ending the iteration at the first family that
\* gives no font
RECURSIVE next_default_stops(_, _)
next_default_stops(it, fs) ==
    IF it.default_i < Len(it.default_families)
    THEN LET r == try_family(fs, it.default_families[it.default_i + 1])
             it1 == [it EXCEPT !.default_i = @ + 1]
         IN  IF r.ret # <<>> THEN [it |-> it1, fs |-> r.fs, ret |-> r.ret]
             ELSE [it |-> [it1 EXCEPT !.end = TRUE], fs |-> r.fs, ret |-> <<>>]
    ELSE next_script(it, fs)

\* the first loop of next, over the default families
RECURSIVE next_default(_, _)
next_default(it, fs) ==
    IF it.default_i < Len(it.default_families)
    THEN LET r == try_family(fs, it.default_families[it.default_i + 1])
             it1 == [it EXCEPT !.default_i = @ + 1]
         IN  IF r.ret # <<>> THEN [it |-> it1, fs |-> r.fs, ret |-> r.ret]
             ELSE next_default(it1, r.fs)
    ELSE next_script(it, fs)

\* FontFallbackIter::next(): [it, fs, ret]
FontFallbackIter_next(it, fs) == next_default(it, fs)

(***************************************************************************)
(* Attrs: the text attributes as a record of their nine fields.  A font    *)
(* size is a multiple of half of f32::EPSILON.                             *)
(***************************************************************************)
F32_EPSILON == 2

abs(x) == IF x < 0 THEN 0 - x ELSE x

nearly_eq(x, y) == abs(x - y) < F32_EPSILON

\* impl PartialEq for Attrs
Attrs_eq(self, o) ==
    /\ self.color = o.color
    /\ self.family = o.family
    /\ self.monospaced = o.monospaced
    /\ self.stretch = o.stretch
    /\ self.style = o.style
    /\ self.weight = o.weight
    /\ self.metadata = o.metadata
    /\ self.line_height = o.line_height
    /\ nearly_eq(self.font_size, o.font_size)

compatible_ignores_weight(self, o) ==
    /\ self.family = o.family
    /\ self.monospaced = o.monospaced
    /\ self.stretch = o.stretch
    /\ self.style = o.style

\* Attrs::compatible
compatible(self, o) ==
    /\ self.family = o.family
    /\ self.monospaced = o.monospaced
    /\ self.stretch = o.stretch
    /\ self.style = o.style
    /\ self.weight = o.weight

(***************************************************************************)
(* The derived order and default of Cursor and Affinity.                   *)
(***************************************************************************)
\* #[derive(Ord)] on a field less type: the order of two unsigned numbers
usize_cmp(x, y) == IF x < y THEN "Less" ELSE IF x = y THEN "Equal" ELSE "Greater"

\* #[derive(Ord)] on Affinity: the variants in the order of declaration
Affinity_cmp(x, y) ==
    usize_cmp(IF x = "Before" THEN 0 ELSE 1, IF y = "Before" THEN 0 ELSE 1)

Cursor_cmp_affinity_first(a, b) ==
    IF Affinity_cmp(a.affinity, b.affinity) # "Equal"
    THEN Affinity_cmp(a.affinity, b.affinity)
    ELSE IF usize_cmp(a.line, b.line) # "Equal" THEN usize_cmp(a.line, b.line)
    ELSE usize_cmp(a.index, b.index)

\* #[derive(Ord)] on Cursor: the fields in the order of declaration
Cursor_cmp(a, b) ==
    IF usize_cmp(a.line, b.line) # "Equal" THEN usize_cmp(a.line, b.line)
    ELSE IF usize_cmp(a.index, b.index) # "Equal" THEN usize_cmp(a.index, b.index)
    ELSE Affinity_cmp(a.affinity, b.affinity)

\* impl Default for Affinity
Affinity_default == "Before"

\* #[derive(Default)] on Cursor
Cursor_default == [line |-> 0, index |-> 0, affinity |-> Affinity_default]

(***************************************************************************)
(* FamilyOwned::parse_list (attrs.rs).  A string is the sequence of its     *)
(* bytes, each byte a one-character string; positions count from 0 as in    *)
(* the source, so the byte at position p is source[p + 1].                  *)
(***************************************************************************)
\* the quote bytes b'"' and b'\''
DQ == "\""

SQ == "'"

\* U+000B, the vertical tab: white space to char::is_whitespace (and so to
\* str::trim), but not to u8::is_ascii_whitespace
VT == "<VT>"

\* u8::is_ascii_whitespace: space, tab, line feed, form feed, carriage return
is_ascii_whitespace(ch) == ch \in {" ", "\t", LF, "\f", CR}

\* char::is_whitespace on the bytes the inputs are made of
is_whitespace(ch) == ch \in {" ", "\t", LF, VT, "\f", CR}

\* source.get(start..end): the bytes at the positions start..end-1
get(source, start, end) == SubSeq(source, start + 1, end)

\* str::trim: leading and trailing white space removed
RECURSIVE trim(_)
trim(s) ==
    IF s = <<>> THEN s
    ELSE IF is_whitespace(s[1]) THEN trim(Tail(s))
    ELSE IF is_whitespace(s[Len(s)]) THEN trim(SubSeq(s, 1, Len(s) - 1))
    ELSE s

UpperCase == <<"A", "B", "C", "D", "E", "F", "G", "H", "I", "J", "K", "L", "M",
               "N", "O", "P", "Q", "R", "S", "T", "U", "V", "W", "X", "Y", "Z">>

LowerCase == <<"a", "b", "c", "d", "e", "f", "g", "h", "i", "j", "k", "l", "m",
               "n", "o", "p", "q", "r", "s", "t", "u", "v", "w", "x", "y", "z">>

\* str::to_lowercase on ASCII text
to_lowercase(s) ==
    [i \in 1..Len(s) |->
        IF \E k \in 1..26 : UpperCase[k] = s[i]
        THEN LowerCase[CHOOSE k \in 1..26 : UpperCase[k] = s[i]]
        ELSE s[i]]

\* the generic family keywords, byte by byte
Str_serif == <<"s", "e", "r", "i", "f">>

Str_sans_serif == <<"s", "a", "n", "s", "-", "s", "e", "r", "i", "f">>

Str_monospace == <<"m", "o", "n", "o", "s", "p", "a", "c", "e">>

Str_cursive == <<"c", "u", "r", "s", "i", "v", "e">>

Str_fantasy == <<"f", "a", "n", "t", "a", "s", "y">>

\* FamilyOwned::Name(name)
Name(name) == <<"Name", name>>

\* the loop at attrs.rs:368: the first position from pos on whose byte is
\* neither ASCII white space nor a comma, len if there is none
RECURSIVE skip_separators(_, _, _)
skip_separators(source, len, pos) ==
    IF pos < len /\ (is_ascii_whitespace(source[pos + 1]) \/ source[pos + 1] = ",")
    THEN skip_separators(source, len, pos + 1)
    ELSE pos

\* the loops at attrs.rs:389 and 410: the first position from pos on whose
\* byte is ch, len if there is none
RECURSIVE find_byte(_, _, _, _)
find_byte(source, len, pos, ch) ==
    IF pos < len /\ source[pos + 1] # ch
    THEN find_byte(source, len, pos + 1, ch)
    ELSE pos

\* the match at attrs.rs:422 on the trimmed unquoted name
match_family(name) ==
    LET lower == to_lowercase(name) IN
    IF lower = Str_serif THEN <<"Serif">>
    ELSE IF lower = Str_sans_serif THEN <<"SansSerif">>
    ELSE IF lower = Str_monospace THEN <<"Monospace">>
    ELSE IF lower = Str_cursive THEN <<"Cursive">>
    ELSE IF lower = Str_fantasy THEN <<"Fantasy">>
    ELSE Name(name)

\* FamilyOwned::parse_list(s)
parse_list(s) == [source |-> s, len |-> Len(s), pos |-> 0]

\* ParseList::next: the iterator after the call and <<the family>> it
\* returns, <<>> for None
ParseList_next(self) ==
    LET source == self.source
        len    == self.len
        pos    == skip_separators(source, len, self.pos)
    IN  IF pos >= len
        THEN [self |-> [self EXCEPT !.pos = pos], ret |-> <<>>]
        ELSE
            LET first == source[pos + 1] IN
            IF first \in {DQ, SQ}
            THEN LET start == pos + 1
                     close == find_byte(source, len, start, first)
                 IN  [self |-> [self EXCEPT !.pos = IF close < len THEN close + 1
                                                    ELSE close],
                      ret  |-> <<Name(trim(get(source, start, close)))>>]
            ELSE LET start == pos
                     end   == find_byte(source, len, start, ",")
                 IN  [self |-> [self EXCEPT !.pos = IF end < len THEN end + 1
                                                    ELSE end],
                      ret  |-> <<match_family(trim(get(source, start, end)))>>]

(***************************************************************************)
(* State.                                                                  *)
(***************************************************************************)
VARIABLES
    list,       \* an AttrsList under add_span / split_off
    other,      \* <<the AttrsList the last call returned>> (split_off), else <<>>
    alast,      \* the last AttrsList call: its name and arguments
    apanic,     \* TRUE once a call on the AttrsList has panicked
    buffer,     \* a TextLayout
    checks,     \* TRUE in a build with overflow checks (panic), FALSE without (wrap)
    last,       \* the last call: its name and, where a property refers to
                \* them, its arguments and return value
    iter,       \* a FontFallbackIter
    font_system, \* the FontSystem: database, caches and their locks
    threads     \* the threads calling into the FontSystem: where each is in
                \* its call, its argument and what its last call returned

avars == <<list, other, alast, apanic>>

bvars == <<buffer, checks, last>>

fvars == <<iter, font_system, threads>>

vars == <<list, other, alast, apanic, buffer, checks, last, iter, font_system,
          threads>>

\* the threads calling get_font and get_font_matches
Threads == {1, 2}

\* a thread outside every call, nothing returned to it yet; in a call key is
\* <<the operation, its argument>> and ret is <<<<the operation, its
\* argument, the value returned>>>> after one
Thread_idle == [pc |-> "idle", key |-> <<>>, ret |-> <<>>]

\* no font installed, nothing asked of the font system
FontsIdle ==
    /\ iter = FontFallbackIter_new(<<>>, <<>>)
    /\ font_system = FontSystem_new([f \in Families |-> "none"], {})
    /\ threads = [t \in Threads |-> Thread_idle]

\* the buffer after construction, in either build
BufferInit ==
    /\ checks \in BOOLEAN
    /\ buffer = TextLayout_new(checks)
    /\ last = [op |-> "new"]

(***************************************************************************)
(* The attribute span map under arbitrary add_span / split_off calls.      *)
(***************************************************************************)
AttrsInit ==
    /\ \E d \in AttrVals : list = AttrsList_new(d)
    /\ other = <<>>
    /\ alast = [op |-> "new"]
    /\ apanic = FALSE
    /\ checks = FALSE
    /\ buffer = TextLayout_new(checks)
    /\ last = [op |-> "new"]
    /\ FontsIdle

AddSpan(s, e, v) ==
    /\ ~apanic
    /\ IF add_span_panics(s, e)
       THEN /\ apanic' = TRUE
            /\ UNCHANGED list
       ELSE /\ list' = add_span(list, s, e, v)
            /\ UNCHANGED apanic
    /\ alast' = [op |-> "add_span", start |-> s, end |-> e, val |-> v]
    /\ other' = <<>>
    /\ UNCHANGED <<bvars, fvars>>

SplitOff(k) ==
    /\ ~apanic
    /\ LET r == split_off(list, k)
       IN  /\ list' = r.self
           /\ other' = IF r.panic THEN <<>> ELSE <<r.new>>
           /\ apanic' = r.panic
    /\ alast' = [op |-> "split_off", at |-> k]
    /\ UNCHANGED <<bvars, fvars>>

\* the caller goes on with the list split_off returned (as set_text does)
Adopt ==
    /\ ~apanic
    /\ other # <<>>
    /\ list' = other[1]
    /\ other' = <<>>
    /\ alast' = [op |-> "adopt"]
    /\ UNCHANGED <<apanic, bvars, fvars>>

AttrsNext ==
    \/ \E s \in 0..MaxOff, e \in 0..MaxOff, v \in AttrVals : AddSpan(s, e, v)
    \/ \E k \in 0..MaxOff : SplitOff(k)
    \/ Adopt

AttrsSpec == AttrsInit /\ [][AttrsNext]_vars

(***************************************************************************)
(* Inputs of the buffer operations.                                        *)
(***************************************************************************)
\* the sequences over S of length at most n
SeqsUpTo(S, n) == UNION {[1..k -> S] : k \in 0..n}

\* texts for the buffer operations: lines of glyphs separated by line feeds
BufTexts == SeqsUpTo({"a", LF}, MaxBufLen)

\* texts for set_text alone: glyphs, carriage returns and line feeds
TextInputs == SeqsUpTo({"a", CR, LF}, MaxTextLen)

\* the attribute maps add_span builds over the offsets 0..MaxSpanOff-1: for each
\* choice of a value or none per offset, the map after adding them in order
RECURSIVE AttrsFrom(_, _, _)
AttrsFrom(f, i, l) ==
    IF i >= MaxSpanOff THEN l
    ELSE AttrsFrom(f, i + 1,
                   IF f[i] = NONE THEN l ELSE add_span(l, i, i + 1, f[i]))

AttrInputs ==
    {AttrsFrom(f, 0, AttrsList_new(d)) :
        f \in [0..(MaxSpanOff - 1) -> AttrVals \cup {NONE}], d \in AttrVals}

\* arguments of set_wrap: no wrapping, and the mode the buffer starts in
WrapInputs == {"None", "Word"}

PlainAttrs == AttrsList_new("default")

\* (width, height) arguments of set_size: negative, narrow and low, wide and
\* low; the buffer starts wide and high
SizeInputs == {<<-1, -1>>, <<2, 1>>, <<F32_MAX, 1>>}

ScrollInputs == {-1, 1}

LinesInputs == {-1, 0, 1, 2, I32_MAX}

CursorInputs ==
    {Cursor_new_with_affinity(l, i, a) :
        l \in 0..1, i \in {0, 2}, a \in {"Before", "After"}}

(***************************************************************************)
(* The buffer operations.                                                  *)
(***************************************************************************)
SetText(text, attrs) ==
    /\ ~buffer.panicked
    /\ buffer' = set_text(buffer, text, attrs, checks)
    /\ last' = [op |-> "set_text", text |-> text, attrs |-> attrs]
    /\ UNCHANGED <<checks, avars, fvars>>

SetSize(width, height) ==
    /\ ~buffer.panicked
    /\ buffer' = set_size(buffer, width, height, checks)
    /\ last' = [op |-> "set_size"]
    /\ UNCHANGED <<checks, avars, fvars>>

SetWrap(wrap) ==
    /\ ~buffer.panicked
    /\ buffer' = set_wrap(buffer, wrap, checks)
    /\ last' = [op |-> "set_wrap"]
    /\ UNCHANGED <<checks, avars, fvars>>

SetScroll(scroll) ==
    /\ ~buffer.panicked
    /\ buffer' = set_scroll(buffer, scroll)
    /\ last' = [op |-> "set_scroll"]
    /\ UNCHANGED <<checks, avars, fvars>>

ShapeUntil(lines) ==
    /\ ~buffer.panicked
    /\ LET r == shape_until(buffer, lines)
       IN  /\ buffer' = r.buf
           /\ last' = [op |-> "shape_until", lines |-> lines, ret |-> r.ret]
    /\ UNCHANGED <<checks, avars, fvars>>

ShapeUntilScroll ==
    /\ ~buffer.panicked
    /\ buffer' = shape_until_scroll(buffer, checks)
    /\ last' = [op |-> "shape_until_scroll"]
    /\ UNCHANGED <<checks, avars, fvars>>

ShapeUntilCursor(cursor) ==
    /\ ~buffer.panicked
    /\ buffer' = shape_until_cursor(buffer, cursor, checks)
    /\ last' = [op |-> "shape_until_cursor"]
    /\ UNCHANGED <<checks, avars, fvars>>

\* the editing layer changes Line Record line_i and resets its caches
LineReset(line_i) ==
    /\ ~buffer.panicked
    /\ line_i < Len(buffer.lines)
    /\ buffer' = [buffer EXCEPT !.lines[line_i + 1] = TextLayoutLine_reset(@)]
    /\ last' = [op |-> "line_reset"]
    /\ UNCHANGED <<checks, avars, fvars>>

Init ==
    /\ BufferInit
    /\ list = PlainAttrs
    /\ other = <<>>
    /\ alast = [op |-> "new"]
    /\ apanic = FALSE
    /\ FontsIdle

Next ==
    \/ \E text \in BufTexts : SetText(text, PlainAttrs)
    \/ \E sz \in SizeInputs : SetSize(sz[1], sz[2])
    \/ \E w \in WrapInputs : SetWrap(w)
    \/ \E sc \in ScrollInputs : SetScroll(sc)
    \/ \E n \in LinesInputs : ShapeUntil(n)
    \/ ShapeUntilScroll
    \/ \E c \in CursorInputs : ShapeUntilCursor(c)
    \/ \E i \in 0..2 : LineReset(i)

Spec == Init /\ [][Next]_vars

(***************************************************************************)
(* set_text alone, over every text and attribute map of the bounds.        *)
(***************************************************************************)
\* a fresh buffer and the arguments of the call to come
TextInit ==
    /\ checks \in BOOLEAN
    /\ buffer = TextLayout_new(checks)
    /\ \E text \in TextInputs, attrs \in AttrInputs :
          last = [op |-> "input", text |-> text, attrs |-> attrs]
    /\ list = PlainAttrs
    /\ other = <<>>
    /\ alast = [op |-> "new"]
    /\ apanic = FALSE
    /\ FontsIdle

TextNext ==
    /\ last.op = "input"
    /\ SetText(last.text, last.attrs)

TextSpec == TextInit /\ [][TextNext]_vars

(***************************************************************************)
(* The queries on a buffer: layout_runs, hit and hit_position over every   *)
(* buffer that set_text, set_size and set_scroll build from the inputs,    *)
(* and over the buffers the editing layer leaves with records reset.       *)
(***************************************************************************)
ViewWidths == {1, 2, F32_MAX}

ViewHeights == {0, 1, 2, F32_MAX}

ViewScrolls == {-1, 0, 1}

\* pixel coordinates handed to hit: left of, on and right of the glyphs;
\* above, in and below the bands
HitXs == -1..3

HitYs == -1..3

\* byte offsets handed to hit_position
HitIdxs == 0..3

ViewInit ==
    /\ checks = FALSE
    /\ \E text \in BufTexts, w \in ViewWidths, h \in ViewHeights,
          sc \in ViewScrolls :
          buffer = set_scroll(
                       set_size(set_text(TextLayout_new(checks), text,
                                         PlainAttrs, checks),
                                w, h, checks),
                       sc)
    /\ last = [op |-> "view"]
    /\ list = PlainAttrs
    /\ other = <<>>
    /\ alast = [op |-> "new"]
    /\ apanic = FALSE
    /\ FontsIdle

LayoutRuns ==
    /\ ~buffer.panicked
    /\ last' = [op |-> "layout_runs", ret |-> layout_runs(buffer)]
    /\ UNCHANGED <<buffer, checks, avars, fvars>>

Hit(x, y) ==
    /\ ~buffer.panicked
    /\ last' = [op |-> "hit", x |-> x, y |-> y, ret |-> hit(buffer, x, y)]
    /\ UNCHANGED <<buffer, checks, avars, fvars>>

HitPosition(idx) ==
    /\ ~buffer.panicked
    /\ last' = [op |-> "hit_position", idx |-> idx,
                ret |-> hit_position(buffer, idx)]
    /\ UNCHANGED <<buffer, checks, avars, fvars>>

ViewNext ==
    \/ LayoutRuns
    \/ \E x \in HitXs, y \in HitYs : Hit(x, y)
    \/ \E idx \in HitIdxs : HitPosition(idx)
    \/ \E i \in 0..2 : LineReset(i)

ViewSpec == ViewInit /\ [][ViewNext]_vars

(***************************************************************************)
(* hit_point over the same buffers.                                        *)
(***************************************************************************)
HitPoint(x, y) ==
    /\ ~buffer.panicked
    /\ last' = [op |-> "hit_point", x |-> x, y |-> y,
                ret |-> hit_point(buffer, x, y)]
    /\ UNCHANGED <<buffer, checks, avars, fvars>>

PointNext ==
    \/ \E x \in HitXs, y \in HitYs : HitPoint(x, y)
    \/ \E i \in 0..2 : LineReset(i)

PointSpec == ViewInit /\ [][PointNext]_vars

(***************************************************************************)
(* line_col_position over the same buffers.                                *)
(***************************************************************************)
\* text lines and columns handed to line_col_position: on a glyph, at the
\* end of the line and beyond it
PosLines == 0..2

PosCols == 0..3

LineColPosition(line, col) ==
    /\ ~buffer.panicked
    /\ last' = [op |-> "line_col_position", line |-> line, col |-> col,
                ret |-> line_col_position(buffer, line, col)]
    /\ UNCHANGED <<buffer, checks, avars, fvars>>

PositionNext ==
    \/ \E line \in PosLines, col \in PosCols : LineColPosition(line, col)
    \/ \E i \in 0..2 : LineReset(i)

PositionSpec == ViewInit /\ [][PositionNext]_vars

(***************************************************************************)
(* layout_cursor and shape_until_cursor over the same buffers.             *)
(***************************************************************************)
\* cursors handed to layout_cursor: on existing and on missing lines, on
\* every glyph boundary with either affinity
LayoutCursorInputs ==
    {Cursor_new_with_affinity(l, i, a) :
        l \in 0..3, i \in 0..3, a \in {"Before", "After"}}

LayoutCursor(cursor) ==
    /\ ~buffer.panicked
    /\ LET r == layout_cursor_call(buffer, cursor)
       IN  /\ last' = [op |-> "layout_cursor", cursor |-> cursor,
                       panicked |-> r.panicked, ret |-> r.ret]
           /\ buffer' = IF r.panicked THEN [buffer EXCEPT !.panicked = TRUE]
                        ELSE buffer
    /\ UNCHANGED <<checks, avars, fvars>>

CursorNext ==
    \/ \E c \in LayoutCursorInputs : LayoutCursor(c)
    \/ \E c \in CursorInputs : ShapeUntilCursor(c)
    \/ \E i \in 0..2 : LineReset(i)

CursorSpec == ViewInit /\ [][CursorNext]_vars

(***************************************************************************)
(* LayoutRun::highlight on the runs of fully laid-out buffers, for every   *)
(* pair of cursors of the inputs.                                          *)
(***************************************************************************)
\* the ends of the highlighted range: before, on and after each line
HighlightCursors ==
    {Cursor_new_with_affinity(l, i, a) :
        l \in 0..2, i \in 0..2, a \in {"Before", "After"}}

\* a buffer with every run visible and the arguments of the call to come
HighlightInit ==
    /\ checks = FALSE
    /\ \E text \in BufTexts, w \in ViewWidths :
          buffer = set_size(set_text(TextLayout_new(checks), text,
                                     PlainAttrs, checks),
                            w, F32_MAX, checks)
    /\ \E cs \in HighlightCursors, ce \in HighlightCursors :
          last = [op |-> "input", start |-> cs, end |-> ce]
    /\ list = PlainAttrs
    /\ other = <<>>
    /\ alast = [op |-> "new"]
    /\ apanic = FALSE
    /\ FontsIdle

\* highlight on the k-th run of layout_runs()
Highlight(k) ==
    /\ last.op = "input"
    /\ k <= Len(layout_runs(buffer))
    /\ last' = [op |-> "highlight", run |-> layout_runs(buffer)[k],
                start |-> last.start, end |-> last.end,
                ret |-> highlight(layout_runs(buffer)[k], last.start, last.end)]
    /\ UNCHANGED <<buffer, checks, avars, fvars>>

HighlightNext == \E k \in 1..(MaxBufLen + 1) : Highlight(k)

HighlightSpec == HighlightInit /\ [][HighlightNext]_vars

(***************************************************************************)
(* FontFallbackIter::next called again and again, over every database of   *)
(* installed, broken and missing faces.                                    *)
(***************************************************************************)
\* the default families of the request
DefaultInputs == {<<>>, <<"A">>, <<"A", "B">>}

\* the scripts of the text: "s" has two families of its own, "t" none
ScriptInputs == {<<>>, <<"s">>, <<"t", "s">>, <<"s", "s">>}

FontInit ==
    /\ \E d \in DefaultInputs, sc \in ScriptInputs :
          iter = FontFallbackIter_new(d, sc)
    /\ \E db \in [Families -> FaceStates] :
          font_system = FontSystem_new(db, {})
    /\ threads = [t \in Threads |-> Thread_idle]
    /\ checks = FALSE
    /\ buffer = TextLayout_new(checks)
    /\ last = [op |-> "new"]
    /\ list = PlainAttrs
    /\ other = <<>>
    /\ alast = [op |-> "new"]
    /\ apanic = FALSE

IterNext ==
    /\ LET r == FontFallbackIter_next(iter, font_system)
       IN  /\ iter' = r.it
           /\ font_system' = r.fs
           /\ last' = [op |-> "next", ret |-> r.ret]
    /\ UNCHANGED <<buffer, checks, avars, threads>>

FontNext == IterNext

FontSpec == FontInit /\ [][FontNext]_vars

\* a call of next() still changes something: the iterator has not reported
\* its end.  This is ENABLED <<IterNext>>_vars as a predicate on the state.
IterPending == ~(iter.end /\ last.op = "next" /\ last.ret = <<>>)

\* the consumer of the iterator goes on calling next() until a call returns
\* None: weak fairness of IterNext, WF_vars(IterNext), with the enabling
\* condition written out
FontLiveSpec ==
    /\ FontInit
    /\ [][FontNext]_vars
    /\ (<>[]IterPending => []<><<IterNext>>_vars)

(***************************************************************************)
(* get_font and get_font_matches called by several threads at once.  A     *)
(* thread takes one step at each lock it acquires and at each use of what  *)
(* the lock guards.                                                        *)
(***************************************************************************)
\* the font ids and the attribute fingerprints the threads ask for
FontIds == {"A", "B"}

FontAttrsInputs == {{"A"}, {"A", "B"}}

SystemInit ==
    /\ \E db \in [Families -> FaceStates] :
          /\ \A f \in Families \ FontIds : db[f] = "none"
          /\ font_system = FontSystem_new(db, FontAttrsInputs)
    /\ iter = FontFallbackIter_new(<<>>, <<>>)
    /\ threads = [t \in Threads |-> Thread_idle]
    /\ checks = FALSE
    /\ buffer = TextLayout_new(checks)
    /\ last = [op |-> "new"]
    /\ list = PlainAttrs
    /\ other = <<>>
    /\ alast = [op |-> "new"]
    /\ apanic = FALSE

\* thread t goes to pc
Goto(t, pc) == threads' = [threads EXCEPT ![t].pc = pc]

\* thread t returns value from its call of op
Return(t, op, value) ==
    threads' = [threads EXCEPT
                   ![t].pc = "idle",
                   ![t].ret = <<<<op, threads[t].key[2], value>>>>]

\* thread t calls get_font(id)
GetFontCall(t, id) ==
    /\ threads[t].pc = "idle"
    /\ threads' = [threads EXCEPT ![t].pc = "font_cache_read",
                                  ![t].key = <<"get_font", id>>]
    /\ UNCHANGED <<font_system, iter, avars, bvars>>

\* self.font_cache.read()
FontCacheRead(t) ==
    /\ threads[t].pc = "font_cache_read"
    /\ can_read(font_system.font_cache_lock)
    /\ font_system' = [font_system EXCEPT
                          !.font_cache_lock.readers = @ \cup {t}]
    /\ Goto(t, "font_cache_get")
    /\ UNCHANGED <<iter, avars, bvars>>

\* .get(&id) with the read guard kept over a miss
FontCacheGet_keeps_guard(t) ==
    /\ threads[t].pc = "font_cache_get"
    /\ IF font_system.font_cache[threads[t].key[2]].present
       THEN /\ font_system' = [font_system EXCEPT
                                  !.font_cache_lock.readers = @ \ {t}]
            /\ Return(t, "get_font", font_system.font_cache[threads[t].key[2]].value)
       ELSE /\ UNCHANGED font_system
            /\ Goto(t, "font_cache_write")
    /\ UNCHANGED <<iter, avars, bvars>>

\* .get(&id): a hit returns the clone, a miss goes on; the read guard is
\* dropped either way
FontCacheGet(t) ==
    /\ threads[t].pc = "font_cache_get"
    /\ font_system' = [font_system EXCEPT
                          !.font_cache_lock.readers = @ \ {t}]
    /\ IF font_system.font_cache[threads[t].key[2]].present
       THEN Return(t, "get_font", font_system.font_cache[threads[t].key[2]].value)
       ELSE Goto(t, "font_cache_write")
    /\ UNCHANGED <<iter, avars, bvars>>

\* self.font_cache.write()
FontCacheWrite(t) ==
    /\ threads[t].pc = "font_cache_write"
    /\ can_write(font_system.font_cache_lock)
    /\ font_system' = [font_system EXCEPT !.font_cache_lock.writer = <<t>>]
    /\ Goto(t, "font_cache_entry")
    /\ UNCHANGED <<iter, avars, bvars>>

\* .entry(id).or_insert_with(..): the closure runs for a vacant entry only
FontCacheEntry(t) ==
    /\ threads[t].pc = "font_cache_entry"
    /\ IF vacant(font_system.font_cache, threads[t].key[2])
       THEN Goto(t, "db_write")
       ELSE Goto(t, "font_return")
    /\ UNCHANGED <<font_system, iter, avars, bvars>>

\* self.db.write().make_shared_face_data(id); the guard goes with the
\* statement
DbWrite(t) ==
    /\ threads[t].pc = "db_write"
    /\ can_write(font_system.db_lock)
    /\ Goto(t, "db_read")
    /\ UNCHANGED <<font_system, iter, avars, bvars>>

\* let db = self.db.read()
DbRead(t) ==
    /\ threads[t].pc = "db_read"
    /\ can_read(font_system.db_lock)
    /\ font_system' = [font_system EXCEPT !.db_lock.readers = @ \cup {t}]
    /\ Goto(t, "font_new")
    /\ UNCHANGED <<iter, avars, bvars>>

\* db.face(id)?, Font::new(face): the value of the closure is stored and
\* the guard of the database dropped
FontNew(t) ==
    /\ threads[t].pc = "font_new"
    /\ font_system' = [font_cache_store(font_system, threads[t].key[2]) EXCEPT
                          !.db_lock.readers = @ \ {t}]
    /\ Goto(t, "font_return")
    /\ UNCHANGED <<iter, avars, bvars>>

\* .clone() of the stored value; the write guard is dropped on return
FontReturn(t) ==
    /\ threads[t].pc = "font_return"
    /\ font_system' = [font_system EXCEPT !.font_cache_lock.writer = <<>>]
    /\ Return(t, "get_font", font_system.font_cache[threads[t].key[2]].value)
    /\ UNCHANGED <<iter, avars, bvars>>

\* thread t calls get_font_matches(attrs), font_attrs its fingerprint
GetFontMatchesCall(t, font_attrs) ==
    /\ threads[t].pc = "idle"
    /\ threads' = [threads EXCEPT ![t].pc = "matches_cache_read",
                                  ![t].key = <<"get_font_matches", font_attrs>>]
    /\ UNCHANGED <<font_system, iter, avars, bvars>>

\* self.font_matches_cache.read()
MatchesCacheRead(t) ==
    /\ threads[t].pc = "matches_cache_read"
    /\ can_read(font_system.font_matches_cache_lock)
    /\ font_system' = [font_system EXCEPT
                          !.font_matches_cache_lock.readers = @ \cup {t}]
    /\ Goto(t, "matches_cache_get")
    /\ UNCHANGED <<iter, avars, bvars>>

\* .get(&font_attrs)
MatchesCacheGet(t) ==
    /\ threads[t].pc = "matches_cache_get"
    /\ font_system' = [font_system EXCEPT
                          !.font_matches_cache_lock.readers = @ \ {t}]
    /\ IF font_system.font_matches_cache[threads[t].key[2]].present
       THEN Return(t, "get_font_matches",
                   font_system.font_matches_cache[threads[t].key[2]].value)
       ELSE Goto(t, "matches_cache_write")
    /\ UNCHANGED <<iter, avars, bvars>>

\* self.font_matches_cache.write()
MatchesCacheWrite(t) ==
    /\ threads[t].pc = "matches_cache_write"
    /\ can_write(font_system.font_matches_cache_lock)
    /\ font_system' = [font_system EXCEPT
                          !.font_matches_cache_lock.writer = <<t>>]
    /\ Goto(t, "matches_cache_entry")
    /\ UNCHANGED <<iter, avars, bvars>>

\* .entry(font_attrs).or_insert_with(..)
MatchesCacheEntry(t) ==
    /\ threads[t].pc = "matches_cache_entry"
    /\ IF vacant(font_system.font_matches_cache, threads[t].key[2])
       THEN Goto(t, "matches_db_read")
       ELSE Goto(t, "matches_return")
    /\ UNCHANGED <<font_system, iter, avars, bvars>>

\* self.db.read()
MatchesDbRead(t) ==
    /\ threads[t].pc = "matches_db_read"
    /\ can_read(font_system.db_lock)
    /\ font_system' = [font_system EXCEPT !.db_lock.readers = @ \cup {t}]
    /\ Goto(t, "matches_collect")
    /\ UNCHANGED <<iter, avars, bvars>>

\* .faces().filter(..).map(..).collect(), Arc::new(ids): the list is stored
\* and the guard of the database dropped
MatchesCollect(t) ==
    /\ threads[t].pc = "matches_collect"
    /\ font_system' = [font_matches_cache_store(font_system, threads[t].key[2])
                          EXCEPT !.db_lock.readers = @ \ {t}]
    /\ Goto(t, "matches_return")
    /\ UNCHANGED <<iter, avars, bvars>>

\* .clone() of the stored list; the write guard is dropped on return
MatchesReturn(t) ==
    /\ threads[t].pc = "matches_return"
    /\ font_system' = [font_system EXCEPT
                          !.font_matches_cache_lock.writer = <<>>]
    /\ Return(t, "get_font_matches",
              font_system.font_matches_cache[threads[t].key[2]].value)
    /\ UNCHANGED <<iter, avars, bvars>>

SystemNext ==
    \/ \E t \in Threads, id \in FontIds : GetFontCall(t, id)
    \/ \E t \in Threads : FontCacheRead(t)
    \/ \E t \in Threads : FontCacheGet(t)
    \/ \E t \in Threads : FontCacheWrite(t)
    \/ \E t \in Threads : FontCacheEntry(t)
    \/ \E t \in Threads : DbWrite(t)
    \/ \E t \in Threads : DbRead(t)
    \/ \E t \in Threads : FontNew(t)
    \/ \E t \in Threads : FontReturn(t)
    \/ \E t \in Threads, k \in FontAttrsInputs : GetFontMatchesCall(t, k)
    \/ \E t \in Threads : MatchesCacheRead(t)
    \/ \E t \in Threads : MatchesCacheGet(t)
    \/ \E t \in Threads : MatchesCacheWrite(t)
    \/ \E t \in Threads : MatchesCacheEntry(t)
    \/ \E t \in Threads : MatchesDbRead(t)
    \/ \E t \in Threads : MatchesCollect(t)
    \/ \E t \in Threads : MatchesReturn(t)

SystemSpec == SystemInit /\ [][SystemNext]_vars

(***************************************************************************)
(* Attrs::compatible and == on every triple of attributes that each differ *)
(* from one base in at most one font field and at most one other field.    *)
(***************************************************************************)
BaseAttrs ==
    [color |-> "black", family |-> <<"SansSerif">>, monospaced |-> FALSE,
     stretch |-> "Normal", style |-> "Normal", weight |-> 400,
     font_size |-> 1, line_height |-> <<"Normal", 1>>, metadata |-> 0]

FontVariants ==
    {BaseAttrs,
     [BaseAttrs EXCEPT !.family = <<"Serif", "SansSerif">>],
     [BaseAttrs EXCEPT !.monospaced = TRUE],
     [BaseAttrs EXCEPT !.stretch = "Condensed"],
     [BaseAttrs EXCEPT !.style = "Italic"],
     [BaseAttrs EXCEPT !.weight = 700]}

OtherVariants(a) ==
    {a,
     [a EXCEPT !.color = "red"],
     [a EXCEPT !.font_size = 0],
     [a EXCEPT !.font_size = 3],
     [a EXCEPT !.line_height = <<"Px", 1>>],
     [a EXCEPT !.metadata = 1]}

AttrsValues == UNION {OtherVariants(a) : a \in FontVariants}

CompatInit ==
    /\ checks = FALSE
    /\ buffer = TextLayout_new(checks)
    /\ \E a \in AttrsValues, b \in AttrsValues, c \in AttrsValues :
          last = [op |-> "input", a |-> a, b |-> b, c |-> c]
    /\ list = PlainAttrs
    /\ other = <<>>
    /\ alast = [op |-> "new"]
    /\ apanic = FALSE
    /\ FontsIdle

\* compatible and == on the attributes drawn
Compatible ==
    /\ last.op = "input"
    /\ last' = [op |-> "compatible", a |-> last.a, b |-> last.b, c |-> last.c,
                aa |-> compatible(last.a, last.a),
                ab |-> compatible(last.a, last.b),
                ba |-> compatible(last.b, last.a),
                bc |-> compatible(last.b, last.c),
                ac |-> compatible(last.a, last.c),
                eq |-> Attrs_eq(last.a, last.b)]
    /\ UNCHANGED <<buffer, checks, avars, fvars>>

CompatNext == Compatible

CompatSpec == CompatInit /\ [][CompatNext]_vars

(***************************************************************************)
(* The order of cursors on every triple of cursors.                        *)
(***************************************************************************)
OrderCursors ==
    {Cursor_new_with_affinity(l, i, a) :
        l \in 0..2, i \in 0..2, a \in {"Before", "After"}}

OrderInit ==
    /\ checks = FALSE
    /\ buffer = TextLayout_new(checks)
    /\ \E a \in OrderCursors, b \in OrderCursors, c \in OrderCursors :
          last = [op |-> "input", a |-> a, b |-> b, c |-> c]
    /\ list = PlainAttrs
    /\ other = <<>>
    /\ alast = [op |-> "new"]
    /\ apanic = FALSE
    /\ FontsIdle

\* the cursors drawn compared with each other, and the cursors that
\* Cursor::new and Cursor::default make
CursorCmp ==
    /\ last.op = "input"
    /\ last' = [op |-> "cmp", a |-> last.a, b |-> last.b, c |-> last.c,
                ab |-> Cursor_cmp(last.a, last.b),
                ba |-> Cursor_cmp(last.b, last.a),
                bc |-> Cursor_cmp(last.b, last.c),
                ac |-> Cursor_cmp(last.a, last.c),
                new |-> Cursor_new(last.a.line, last.a.index),
                default |-> Cursor_default]
    /\ UNCHANGED <<buffer, checks, avars, fvars>>

OrderNext == CursorCmp

OrderSpec == OrderInit /\ [][OrderNext]_vars

(***************************************************************************)
(* The buffer operations together with line_shape and line_layout, on      *)
(* buffers whose records the editing layer resets.                         *)
(***************************************************************************)
LineShape(line_i) ==
    /\ ~buffer.panicked
    /\ buffer' = line_shape(buffer, line_i)
    /\ last' = [op |-> "line_shape", line_i |-> line_i]
    /\ UNCHANGED <<checks, avars, fvars>>

LineLayout(line_i) ==
    /\ ~buffer.panicked
    /\ buffer' = line_layout(buffer, line_i)
    /\ last' = [op |-> "line_layout", line_i |-> line_i]
    /\ UNCHANGED <<checks, avars, fvars>>

CacheNext ==
    \/ \E text \in {t \in BufTexts : Len(t) = MaxBufLen} : SetText(text, PlainAttrs)
    \/ \E w \in {2, F32_MAX} : SetSize(w, 1)
    \/ \E w \in WrapInputs : SetWrap(w)
    \/ \E sc \in ScrollInputs : SetScroll(sc)
    \/ \E n \in {1, 2} : ShapeUntil(n)
    \/ ShapeUntilScroll
    \/ \E l \in 0..1 : ShapeUntilCursor(Cursor_new(l, 0))
    \/ \E i \in 0..2 : LineShape(i)
    \/ \E i \in 0..2 : LineLayout(i)
    \/ \E i \in 0..2 : LineReset(i)

CacheSpec == Init /\ [][CacheNext]_vars

(***************************************************************************)
(* All five calls of the FontSystem from several threads at once, over one *)
(* database: the three face queries hold the read lock of the database for *)
(* the whole call.  A thread that has started a call is scheduled again    *)
(* and again, and a lock that becomes free again and again is acquired.    *)
(***************************************************************************)
FaceOps == {"face_contains_family", "face_contains_family_name", "face_name"}

LockInit ==
    /\ SystemInit
    /\ font_system.db["A"] = "ok"
    /\ font_system.db["B"] = "none"

\* thread t calls face_contains_family, face_contains_family_name or
\* face_name on id
FaceCall(t, op, id) ==
    /\ threads[t].pc = "idle"
    /\ threads' = [threads EXCEPT ![t].pc = "face_db_read",
                                  ![t].key = <<op, id>>]
    /\ UNCHANGED <<font_system, iter, avars, bvars>>

\* self.db.read()
FaceDbRead(t) ==
    /\ threads[t].pc = "face_db_read"
    /\ can_read(font_system.db_lock)
    /\ font_system' = [font_system EXCEPT !.db_lock.readers = @ \cup {t}]
    /\ Goto(t, "face_return")
    /\ UNCHANGED <<iter, avars, bvars>>

\* db.face(id) and the answer computed from it (here: whether the face
\* exists); the guard of the database is dropped on return
FaceReturn(t) ==
    /\ threads[t].pc = "face_return"
    /\ font_system' = [font_system EXCEPT !.db_lock.readers = @ \ {t}]
    /\ Return(t, threads[t].key[1], font_system.db[threads[t].key[2]] # "none")
    /\ UNCHANGED <<iter, avars, bvars>>

\* the next step of thread t inside a call
ThreadStep(t) ==
    \/ FontCacheRead(t)
    \/ FontCacheGet(t)
    \/ FontCacheWrite(t)
    \/ FontCacheEntry(t)
    \/ DbWrite(t)
    \/ DbRead(t)
    \/ FontNew(t)
    \/ FontReturn(t)
    \/ MatchesCacheRead(t)
    \/ MatchesCacheGet(t)
    \/ MatchesCacheWrite(t)
    \/ MatchesCacheEntry(t)
    \/ MatchesDbRead(t)
    \/ MatchesCollect(t)
    \/ MatchesReturn(t)
    \/ FaceDbRead(t)
    \/ FaceReturn(t)

LockNext ==
    \/ \E t \in Threads, id \in FontIds : GetFontCall(t, id)
    \/ \E t \in Threads : FontCacheRead(t)
    \/ \E t \in Threads : FontCacheGet(t)
    \/ \E t \in Threads : FontCacheWrite(t)
    \/ \E t \in Threads : FontCacheEntry(t)
    \/ \E t \in Threads : DbWrite(t)
    \/ \E t \in Threads : DbRead(t)
    \/ \E t \in Threads : FontNew(t)
    \/ \E t \in Threads : FontReturn(t)
    \/ \E t \in Threads : GetFontMatchesCall(t, {"A"})
    \/ \E t \in Threads : MatchesCacheRead(t)
    \/ \E t \in Threads : MatchesCacheGet(t)
    \/ \E t \in Threads : MatchesCacheWrite(t)
    \/ \E t \in Threads : MatchesCacheEntry(t)
    \/ \E t \in Threads : MatchesDbRead(t)
    \/ \E t \in Threads : MatchesCollect(t)
    \/ \E t \in Threads : MatchesReturn(t)
    \/ \E t \in Threads, op \in FaceOps : FaceCall(t, op, "A")
    \/ \E t \in Threads : FaceDbRead(t)
    \/ \E t \in Threads : FaceReturn(t)

\* the lock thread t is about to acquire, <<>> when it is not at a lock
Wanted(t) ==
    LET pc == threads[t].pc
    IN  IF pc \in {"font_cache_read", "font_cache_write"} THEN <<"font_cache">>
        ELSE IF pc \in {"matches_cache_read", "matches_cache_write"}
        THEN <<"font_matches_cache">>
        ELSE IF pc \in {"db_write", "db_read", "matches_db_read", "face_db_read"}
        THEN <<"db">>
        ELSE <<>>

WantsWrite(t) ==
    threads[t].pc \in {"font_cache_write", "matches_cache_write", "db_write"}

LockOf(name) ==
    IF name = "font_cache" THEN font_system.font_cache_lock
    ELSE IF name = "font_matches_cache" THEN font_system.font_matches_cache_lock
    ELSE font_system.db_lock

Holds(t, name) == t \in LockOf(name).readers \/ LockOf(name).writer = <<t>>

\* thread t is inside a call and its next step can be taken: it is not at a
\* lock, or the lock can be acquired.  This is ENABLED ThreadStep(t) as a
\* predicate on the state.
Ready(t) ==
    /\ threads[t].pc # "idle"
    /\ Wanted(t) # <<>> =>
          IF WantsWrite(t) THEN can_write(LockOf(Wanted(t)[1]))
          ELSE can_read(LockOf(Wanted(t)[1]))

\* where each thread is in its call
pcs == [t \in Threads |-> threads[t].pc]

\* thread t has taken a step inside its call
Moved(t) == threads[t].pc # "idle" /\ threads'[t].pc # threads[t].pc

\* a thread inside a call is scheduled again and again, and a lock that is
\* free again and again is acquired: strong fairness of the steps of each
\* thread, SF_pcs(ThreadStep(t)), with the enabling condition written out
LockSpec ==
    /\ LockInit
    /\ [][LockNext]_vars
    /\ \A t \in Threads : ([]<>Ready(t) => []<><<Moved(t)>>_pcs)

(***************************************************************************)
(* FamilyOwned::parse_list: an input is drawn, then next is called until it *)
(* returns None.  last holds the iterator, its position before the last     *)
(* call, what the call returned and the families yielded so far.            *)
(***************************************************************************)
\* the pieces the inputs are put together from
ParsePieces ==
    {<<"x">>, Str_serif, <<" ">>, <<",">>, <<DQ>>, <<SQ>>, <<VT>>}

\* the generic keywords, in lower case, in upper case and with a capital
Keywords ==
    LET lower == {Str_serif, Str_sans_serif, Str_monospace, Str_cursive, Str_fantasy}
        upper(s) == [i \in 1..Len(s) |->
                        IF \E k \in 1..26 : LowerCase[k] = s[i]
                        THEN UpperCase[CHOOSE k \in 1..26 : LowerCase[k] = s[i]]
                        ELSE s[i]]
    IN  lower \cup {upper(s) : s \in lower}
              \cup {<<upper(s)[1]>> \o Tail(s) : s \in lower}

\* the pieces of a sequence of pieces joined into one string
RECURSIVE Concat(_)
Concat(ps) == IF ps = <<>> THEN <<>> ELSE Head(ps) \o Concat(Tail(ps))

\* a keyword alone, padded, quoted, or after another list element
ParseInputs ==
    {Concat(ps) : ps \in SeqsUpTo(ParsePieces, MaxPieces)}
        \cup Keywords
        \cup {<<" ">> \o k \o <<" ">> : k \in Keywords}
        \cup {<<q>> \o k \o <<q>> : k \in Keywords, q \in {DQ, SQ}}
        \cup {<<"x", ",", " ">> \o k : k \in Keywords}

ParseInit ==
    /\ checks = FALSE
    /\ buffer = TextLayout_new(checks)
    /\ \E s \in ParseInputs :
          last = [op |-> "parse_list", self |-> parse_list(s), prev |-> 0,
                  ret |-> <<>>, items |-> <<>>]
    /\ list = PlainAttrs
    /\ other = <<>>
    /\ alast = [op |-> "new"]
    /\ apanic = FALSE
    /\ FontsIdle

\* one call of next on the iterator, until it has returned None
ParseNext ==
    /\ last.op \in {"parse_list", "next"}
    /\ ~(last.op = "next" /\ last.ret = <<>>)
    /\ LET r == ParseList_next(last.self) IN
        last' = [op |-> "next", self |-> r.self, prev |-> last.self.pos,
                 ret |-> r.ret, items |-> last.items \o r.ret]
    /\ UNCHANGED <<buffer, checks, avars, fvars>>

ParseListNext == ParseNext

ParseSpec == ParseInit /\ [][ParseListNext]_vars

(***************************************************************************)
(* Properties of the attribute span map.                                   *)
(***************************************************************************)
\* the stored entries of l that hold offset i
Covering(l, i) == {a \in l.spans : a.start <= i /\ i < a.end}

SpansWellFormed(l) ==
    /\ \A a \in l.spans : a.start < a.end
    /\ \A a \in l.spans : \A b \in l.spans : a # b => ~Overlaps(a, b.start, b.end)
    /\ \A i \in 0..(MaxOff + 1) :
          /\ Cardinality(Covering(l, i)) <= 1
          /\ \A a \in Covering(l, i) : get_span(l, i) = a.val
          /\ Covering(l, i) = {} => get_span(l, i) = l.defaults

\* C2: after any sequence of add_span and split_off calls, in the map and in
\* the map split_off returned, no two stored spans overlap, every stored span
\* is non-empty, and get_span(i) is the value of the one span covering i, or
\* the default when none covers i.
SpanNonOverlap ==
    /\ SpansWellFormed(list)
    /\ other # <<>> => SpansWellFormed(other[1])

\* C2 witness: a split_off of a map built by add_span left spans on both
\* sides, two of them in the original map
SpanNonOverlapWitness ==
    /\ alast.op = "split_off"
    /\ other # <<>>
    /\ Cardinality(list.spans) >= 2
    /\ other[1].spans # {}

\* what split_off(k) must do to the map l, giving l2 (the original map
\* afterwards) and n (the map returned)
SplitExactAt(l, k, l2, n) ==
    /\ \A a \in l.spans :
          /\ a.end <= k => a \in l2.spans
          /\ a.start >= k =>
                /\ a \notin l2.spans
                /\ Span(a.start - k, a.end - k, a.val) \in n.spans
          /\ (a.start < k /\ k < a.end) =>
                /\ Span(a.start, k, a.val) \in l2.spans
                /\ Span(0, a.end - k, a.val) \in n.spans
    /\ \A b \in l2.spans : b.end <= k
    /\ n.defaults = l.defaults
    /\ \A i \in 0..(MaxOff + 1) :
          IF i < k THEN get_span(l2, i) = get_span(l, i)
                   ELSE get_span(n, i - k) = get_span(l, i)

\* C3: split_off(k) is exact to the byte: spans left of k stay, spans right of
\* k move to the new map rebased by -k, a span straddling k becomes [a,k) and
\* [0,b-k); no span of the original ends after k, the default is kept and
\* every lookup is preserved.
SplitExact ==
    [][\A k \in 0..MaxOff :
          (SplitOff(k) /\ ~apanic') => SplitExactAt(list, k, list', other'[1])]_vars

\* C3 witness: a split_off cut a straddling span in two (it ends at the split
\* point in the original map and starts at 0 in the new one) and rebased a
\* span right of it, with a span left of it staying
SplitExactWitness ==
    /\ alast.op = "split_off"
    /\ other # <<>>
    /\ \E a \in list.spans : \E b \in other[1].spans :
          /\ a.end = alast.at /\ b.start = 0 /\ b.val = a.val
          /\ \E c \in list.spans : c.end <= a.start
          /\ \E c \in other[1].spans : c.start >= b.end

\* C16: add_span(s..e, v) with s < e overwrites: afterwards get_span(i) is v
\* for every i in [s, e) and is what it was before for every other i,
\* whatever spans were stored and however they met the range.
AddSpanOverwrites ==
    [][(/\ alast'.op = "add_span"
        /\ alast'.start < alast'.end
        /\ AddSpan(alast'.start, alast'.end, alast'.val)) =>
           /\ ~apanic'
           /\ \A i \in 0..(MaxOff + 1) :
                 get_span(list', i) =
                     IF alast'.start <= i /\ i < alast'.end
                     THEN alast'.val ELSE get_span(list, i)]_vars

\* C16 witness: add_span wrote its value over the middle of what is stored
\* with another value on both sides of the range
AddSpanOverwritesWitness ==
    /\ alast.op = "add_span"
    /\ alast.start < alast.end
    /\ ~apanic
    /\ Span(alast.start, alast.end, alast.val) \in list.spans
    /\ \E a \in list.spans : \E b \in list.spans :
          /\ a.end = alast.start /\ b.start = alast.end
          /\ a.val = b.val /\ a.val # alast.val

\* C17: add_span(k..k, v) is ignored: the map, its spans() and every
\* get_span result are as before, and no error is raised.
AddSpanZeroWidth ==
    [][(/\ alast'.op = "add_span"
        /\ alast'.start = alast'.end
        /\ AddSpan(alast'.start, alast'.end, alast'.val)) =>
           /\ ~apanic'
           /\ list' = list
           /\ spans_of(list') = spans_of(list)
           /\ \A i \in 0..(MaxOff + 1) : get_span(list', i) = get_span(list, i)
           /\ list.spans = {} => spans_of(list') = <<>>]_vars

\* C17 witness: a zero-width add_span at an offset inside a stored span of
\* another value left that span whole
AddSpanZeroWidthWitness ==
    /\ alast.op = "add_span"
    /\ alast.start = alast.end
    /\ ~apanic
    /\ \E a \in list.spans :
          a.start < alast.start /\ alast.start < a.end /\ a.val # alast.val


(***************************************************************************)
(* Properties of set_text.                                                 *)
(***************************************************************************)
\* the positions (from 1) of the line feeds of a text
LFPos(text) == {p \in 1..Len(text) : text[p] = LF}

\* the position of the n-th line feed, n from 1
NthLF(text, n) ==
    CHOOSE p \in LFPos(text) : Cardinality({q \in LFPos(text) : q < p}) = n - 1

\* the byte offset (from 0) at which line i (from 0) of a text begins
LineStart(text, i) == IF i = 0 THEN 0 ELSE NthLF(text, i)

\* line i (from 0) of a text: the bytes from its start up to its "\n" or
\* "\r\n" terminator, or up to the end of the text when no line feed follows
LineOf(text, i) ==
    LET from == LineStart(text, i) + 1
        terminated == i < Cardinality(LFPos(text))
        lf == IF terminated THEN NthLF(text, i + 1) ELSE Len(text) + 1
        to == IF terminated /\ lf - 1 >= from /\ text[lf - 1] = CR
              THEN lf - 2 ELSE lf - 1
    IN  SubSeq(text, from, to)

SetTextReturned == last.op = "set_text" /\ ~buffer.panicked

\* C4: after set_text(text, attrs) the text of Line Record i is line i of the
\* text with its "\n" or "\r\n" terminator removed and nothing else removed.
SetTextRoundTrip ==
    SetTextReturned =>
        \A i \in 0..(Len(buffer.lines) - 1) :
            buffer.lines[i + 1].text = LineOf(last.text, i)

\* C5: after set_text(text, attrs) the number of Line Records is the number
\* of line feeds of the text plus one.
SetTextLineCount ==
    SetTextReturned => Len(buffer.lines) = Cardinality(LFPos(last.text)) + 1

\* C6: after set_text(text, attrs), for every Line Record i and offset j in
\* its text, the record's get_span(j) is the caller's get_span(s_i + j), s_i
\* the byte offset at which line i begins in the text; every record's map
\* keeps the caller's default.
SetTextCarvesAttrs ==
    SetTextReturned =>
        \A i \in 0..(Len(buffer.lines) - 1) :
            LET rec == buffer.lines[i + 1]
            IN  /\ rec.attrs_list.defaults = last.attrs.defaults
                /\ \A j \in 0..(Len(rec.text) - 1) :
                      get_span(rec.attrs_list, j)
                          = get_span(last.attrs, LineStart(last.text, i) + j)

\* C6 witness: a text whose first line ends in "\r\n" was set with a map
\* holding a span over the second line, which the second record now has
SetTextCarvesAttrsWitness ==
    /\ SetTextReturned
    /\ Len(buffer.lines) >= 2
    /\ Len(last.text) >= 3 /\ last.text[1] = CR /\ last.text[2] = LF
    /\ buffer.lines[2].text # <<>>
    /\ \E a \in buffer.lines[2].attrs_list.spans :
          a.start = 0 /\ a.val # last.attrs.defaults
    /\ get_span(last.attrs, 0) # get_span(last.attrs, 2)

(***************************************************************************)
(* Properties of the buffer.                                               *)
(***************************************************************************)
\* Layout Lines the text of a record wraps into at the buffer's width
WrapCount(b, i) ==
    Len(ShapeLine_layout(ShapeOf(b.lines[i].text), b.width, b.wrap))

\* Layout Lines of the records 1..j
RECURSIVE CumLayout(_, _)
CumLayout(b, j) == IF j = 0 THEN 0 ELSE CumLayout(b, j - 1) + WrapCount(b, j)

\* Layout Lines of the whole text
TotalLayoutLines(b) == CumLayout(b, Len(b.lines))

\* C1: after every set_scroll, set_size and set_wrap call the scroll offset
\* lies in [0, max(0, total_layout_lines - 1)].
ScrollClamp ==
    (last.op \in {"new", "set_text", "set_scroll", "set_size", "set_wrap"}
     /\ ~buffer.panicked) =>
        /\ buffer.scroll >= 0
        /\ buffer.scroll <= Max(0, TotalLayoutLines(buffer) - 1)

\* C7: the buffer always holds at least one Line Record.
AtLeastOneLine == Len(buffer.lines) >= 1

\* C7 witness: set_text of the empty string, or of a lone line feed, left one
\* empty Line Record
AtLeastOneLineWitness ==
    /\ SetTextReturned
    /\ last.text = <<>>
    /\ Len(buffer.lines) = 1
    /\ buffer.lines[1].text = <<>>

\* the number of records shape_until(n) is to process: the shortest prefix
\* whose Layout Lines reach n, all records when none does
PrefixFor(b, n) ==
    IF \E j \in 0..Len(b.lines) : CumLayout(b, j) >= n
    THEN CHOOSE j \in 0..Len(b.lines) :
            /\ CumLayout(b, j) >= n
            /\ \A h \in 0..(j - 1) : CumLayout(b, h) < n
    ELSE Len(b.lines)

ShapeUntilPost(b, n, b2, ret) ==
    LET k == PrefixFor(b, n)
    IN  /\ ret = CumLayout(b, k)
        /\ Len(b2.lines) = Len(b.lines)
        /\ \A i \in 1..Len(b.lines) :
              IF i <= k
              THEN /\ b2.lines[i].shape_opt = <<ShapeOf(b.lines[i].text)>>
                   /\ b2.lines[i].layout_opt # <<>>
                   /\ Len(b2.lines[i].layout_opt[1]) = WrapCount(b, i)
              ELSE b2.lines[i] = b.lines[i]
        /\ n <= 0 => (ret = 0 /\ b2.lines = b.lines)

\* C8: shape_until(n) processes, in index order, exactly the shortest prefix
\* of records whose cumulative Layout Line count reaches n (all of them when
\* the text has fewer), returns that count, leaves every later record's
\* caches untouched, and for n <= 0 processes nothing and returns 0.
ShapeUntilPrefix ==
    [][\A n \in LinesInputs :
          ShapeUntil(n) => ShapeUntilPost(buffer, n, buffer', last'.ret)]_vars

\* C8 witness: shape_until(2) shaped the first two records of a text of three
\* lines, returned 2 and left the third record unshaped
ShapeUntilPrefixWitness ==
    /\ last.op = "shape_until"
    /\ last.lines = 2
    /\ last.ret = 2
    /\ Len(buffer.lines) = 3
    /\ buffer.lines[1].shape_opt # <<>>
    /\ buffer.lines[2].shape_opt # <<>>
    /\ buffer.lines[3].shape_opt = <<>>

\* C9: shape_until_scroll leaves scroll at its value before the call clamped
\* into [0, total - 1].
ShapeUntilScrollClamps ==
    [][(ShapeUntilScroll /\ ~buffer'.panicked) =>
          buffer'.scroll =
              Max(0, Min(TotalLayoutLines(buffer) - 1, buffer.scroll))]_vars

\* Layout Lines that fit in the viewport
VisibleLines(b) == b.height \div LineH

\* record i lies entirely below a viewport that shows at least one Layout
\* Line: its first Layout Line comes after the last one that fits, counted
\* from the scroll offset
BelowViewport(b, i) ==
    /\ VisibleLines(b) >= 1
    /\ CumLayout(b, i - 1) >= Max(0, b.scroll) + VisibleLines(b)

\* C10: set_text, set_size, set_wrap and shape_until_scroll shape only the
\* records needed to fill the viewport: a record that lies entirely below the
\* viewport and had no cached shape before the call (every record, for
\* set_text) has none when the call returns.
ShapingIsLazy ==
    [][(last'.op \in {"set_text", "set_size", "set_wrap", "shape_until_scroll"}
        /\ ~buffer'.panicked) =>
          \A i \in 1..Len(buffer'.lines) :
              (/\ BelowViewport(buffer', i)
               /\ \/ last'.op = "set_text"
                  \/ buffer.lines[i].shape_opt = <<>>)
              => buffer'.lines[i].shape_opt = <<>>]_vars

\* C11: set_size and set_wrap never discard a shape cache: every record that
\* had a cached shape before the call has the same one after it and is
\* wrapped at the width and wrap mode the buffer has after the call; no record
\* loses its shape, and no record's text, attributes or start changes.
ShapeCacheKept ==
    [][(last'.op \in {"set_size", "set_wrap"}) =>
          /\ Len(buffer'.lines) = Len(buffer.lines)
          /\ \A i \in 1..Len(buffer.lines) :
                /\ buffer'.lines[i].text = buffer.lines[i].text
                /\ buffer'.lines[i].attrs_list = buffer.lines[i].attrs_list
                /\ buffer'.lines[i].start = buffer.lines[i].start
                /\ buffer.lines[i].shape_opt # <<>> =>
                      /\ buffer'.lines[i].shape_opt = buffer.lines[i].shape_opt
                      /\ buffer'.lines[i].layout_opt =
                            <<ShapeLine_layout(buffer.lines[i].shape_opt[1],
                                               buffer'.width, buffer'.wrap)>>]_vars

\* C11 witness: set_size narrowed the buffer and a record that keeps its shape
\* is now wrapped into two Layout Lines
ShapeCacheKeptWitness ==
    /\ last.op = "set_size"
    /\ ~buffer.panicked
    /\ buffer.width = 2
    /\ \E i \in 1..Len(buffer.lines) :
          /\ buffer.lines[i].shape_opt = <<ShapeOf(buffer.lines[i].text)>>
          /\ buffer.lines[i].layout_opt # <<>>
          /\ Len(buffer.lines[i].layout_opt[1]) = 2

\* Layout Lines cached in the records 1..n (each of them is wrapped)
RECURSIVE LayoutBefore(_, _)
LayoutBefore(b, n) ==
    IF n = 0 THEN 0
    ELSE LayoutBefore(b, n - 1) + Len(b.lines[n].layout_opt[1])

\* the index of the cursor's Layout Line in the flattened sequence
CursorFlatIndex(b, c) == LayoutBefore(b, c.line) + layout_cursor(b, c).layout

\* layout_runs() yields the Layout Line that holds the cursor
CursorRunShown(b, c) ==
    LET layout_line == b.lines[c.line + 1].layout_opt[1][layout_cursor(b, c).layout + 1]
        runs == layout_runs(b)
    IN  \E k \in 1..Len(runs) :
            /\ runs[k].line_i = c.line
            /\ runs[k].glyphs = GlyphsOf(layout_line)

\* C12: after shape_until_cursor(c), c.line a valid record index, every
\* record up to c.line is shaped and wrapped, scroll is at most the flattened
\* index of the cursor's Layout Line, and, with a viewport that shows at least
\* one Layout Line, layout_runs() yields that Layout Line.
CursorInView ==
    [][\A c \in CursorInputs :
          (/\ ShapeUntilCursor(c)
           /\ c.line < Len(buffer.lines)
           /\ ~buffer'.panicked) =>
              /\ \A i \in 1..(c.line + 1) :
                    /\ buffer'.lines[i].shape_opt # <<>>
                    /\ buffer'.lines[i].layout_opt # <<>>
              /\ buffer'.scroll <= CursorFlatIndex(buffer', c)
              /\ VisibleLines(buffer') >= 1 => CursorRunShown(buffer', c)]_vars

(***************************************************************************)
(* Properties of the visible runs.                                         *)
(***************************************************************************)
\* every record has a cached layout
AllWrapped(b) ==
    \A i \in 1..Len(b.lines) :
        b.lines[i].shape_opt # <<>> /\ b.lines[i].layout_opt # <<>>

\* the flattened Layout Line sequence of a buffer whose records from i on are
\* wrapped: records in index order, each record's Layout Lines in order
RECURSIVE Flat(_, _)
Flat(b, i) ==
    IF i > Len(b.lines) THEN <<>>
    ELSE [k \in 1..Len(b.lines[i].layout_opt[1]) |->
             [line_i |-> i - 1, layout_i |-> k - 1,
              glyphs |-> GlyphsOf(b.lines[i].layout_opt[1][k])]]
         \o Flat(b, i + 1)

\* the runs are the Layout Lines from + 1 .. from + Len(runs) of flat
BlockAt(runs, flat, from) ==
    /\ from + Len(runs) <= Len(flat)
    /\ \A k \in 1..Len(runs) :
          /\ runs[k].line_i = flat[from + k].line_i
          /\ runs[k].glyphs = flat[from + k].glyphs

\* C13: with every record wrapped and 0 <= scroll < total Layout Lines,
\* layout_runs() yields a contiguous block of the flattened Layout Line
\* sequence that starts exactly at index scroll (it is not empty when the
\* viewport shows a Layout Line), and a second iteration yields the same.
RunsContiguous ==
    (/\ last.op = "layout_runs"
     /\ AllWrapped(buffer)
     /\ 0 <= buffer.scroll
     /\ buffer.scroll < Len(Flat(buffer, 1))) =>
        /\ BlockAt(last.ret, Flat(buffer, 1), buffer.scroll)
        /\ VisibleLines(buffer) >= 1 => Len(last.ret) >= 1
        /\ layout_runs(buffer) = last.ret

\* C13 witness: with scroll 1, a record wrapped into three Layout Lines gave
\* its second and third Layout Line
RunsContiguousWitness ==
    /\ last.op = "layout_runs"
    /\ AllWrapped(buffer)
    /\ buffer.scroll = 1
    /\ Len(last.ret) = 2
    /\ last.ret[1].line_i = 0 /\ last.ret[1].glyphs[1].start = 1
    /\ last.ret[2].line_i = 0 /\ last.ret[2].glyphs[1].start = 2

\* the heights of the first k runs
RECURSIVE SumHeights(_, _)
SumHeights(runs, k) ==
    IF k = 0 THEN 0 ELSE SumHeights(runs, k - 1) + runs[k].line_height

\* Layout Lines of the records from i up to the first one without a layout
RECURSIVE PrefixLayout(_, _)
PrefixLayout(b, i) ==
    IF i > Len(b.lines) THEN 0
    ELSE IF b.lines[i].shape_opt = <<>> \/ b.lines[i].layout_opt = <<>> THEN 0
    ELSE Len(b.lines[i].layout_opt[1]) + PrefixLayout(b, i + 1)

\* Layout Lines there are to show: those of the wrapped prefix that scroll
\* does not skip
Showable(b) == Max(0, PrefixLayout(b, 1) - Max(0, b.scroll))

\* C14: layout_runs() honours the viewport height: the heights of the runs
\* up to and including any yielded run sum to at most the height, the
\* sequence ends before the first Layout Line whose running sum exceeds the
\* height (not earlier), and a viewport of height 0 yields no run.
RunsWithinHeight ==
    last.op = "layout_runs" =>
        /\ \A k \in 1..Len(last.ret) : SumHeights(last.ret, k) <= buffer.height
        /\ Len(last.ret) <= Showable(buffer)
        /\ Len(last.ret) < Showable(buffer) =>
              SumHeights(last.ret, Len(last.ret)) + LineH > buffer.height
        /\ buffer.height = 0 => last.ret = <<>>

\* C14 witness: a viewport one Layout Line high cut the runs off after the
\* first of several Layout Lines
RunsWithinHeightWitness ==
    /\ last.op = "layout_runs"
    /\ buffer.height = LineH
    /\ Len(last.ret) = 1
    /\ Showable(buffer) >= 2

\* record i (from 1) is wrapped, as is every record before it, and all its
\* Layout Lines lie in the window of the viewport
AllVisible(b, i) ==
    /\ \A j \in 1..i : b.lines[j].shape_opt # <<>> /\ b.lines[j].layout_opt # <<>>
    /\ LayoutBefore(b, i - 1) >= Max(0, b.scroll)
    /\ LayoutBefore(b, i) <= Max(0, b.scroll) + VisibleLines(b)

\* C15: a record whose k Layout Lines are all visible gets exactly k
\* consecutive runs with its index as line_i; over the whole sequence line_i
\* never decreases and is a valid record index.
RunsPerRecord ==
    last.op = "layout_runs" =>
        /\ \A i \in 1..Len(buffer.lines) :
              AllVisible(buffer, i) =>
                  LET of_i == {k \in 1..Len(last.ret) : last.ret[k].line_i = i - 1}
                  IN  /\ Cardinality(of_i) = Len(buffer.lines[i].layout_opt[1])
                      /\ \A k1 \in of_i : \A k2 \in of_i :
                            \A k \in k1..k2 : k \in of_i
        /\ \A k \in 1..(Len(last.ret) - 1) :
              last.ret[k].line_i <= last.ret[k + 1].line_i
        /\ \A k \in 1..Len(last.ret) :
              last.ret[k].line_i >= 0 /\ last.ret[k].line_i < Len(buffer.lines)

\* C15 witness: at width 2 a record of three glyphs is wrapped into two
\* Layout Lines, both visible, and the two runs carry the same line_i
RunsPerRecordWitness ==
    /\ last.op = "layout_runs"
    /\ buffer.width = 2 * GlyphW
    /\ AllVisible(buffer, 1)
    /\ Len(buffer.lines[1].layout_opt[1]) = 2
    /\ Len(last.ret) = 2
    /\ last.ret[1].line_i = 0 /\ last.ret[2].line_i = 0

(***************************************************************************)
(* Properties of hit testing.                                              *)
(***************************************************************************)
\* y lies in the vertical band [line_y - line_height, line_y) of the run
InBand(run, y) == y >= run.line_y - run.line_height /\ y < run.line_y

\* C18: on a left-to-right line of one run, with scroll not negative, for
\* every glyph g of a visible run and every y in the run's band, hit(g.x, y)
\* returns the cursor at g.start with affinity After.
HitLeftEdge ==
    (last.op = "hit" /\ buffer.scroll >= 0) =>
        \A k \in 1..Len(layout_runs(buffer)) :
            LET run == layout_runs(buffer)[k]
            IN  InBand(run, last.y) =>
                    \A gi \in 1..Len(run.glyphs) :
                        run.glyphs[gi].x = last.x =>
                            last.ret = <<Cursor_new_with_affinity(
                                           run.line_i, run.glyphs[gi].start,
                                           "After")>>

\* the byte offset in the document at which record i (from 1) begins, every
\* line break being one byte
RECURSIVE DocStart(_, _)
DocStart(b, i) ==
    IF i = 1 THEN 0 ELSE DocStart(b, i - 1) + Len(b.lines[i - 1].text) + 1

\* the records (from 1) in whose text the document offset idx falls on a
\* glyph that layout_runs() yields
CoveredIn(b, idx) ==
    {i \in 1..Len(b.lines) :
        /\ DocStart(b, i) <= idx
        /\ idx < DocStart(b, i) + Len(b.lines[i].text)
        /\ \E k \in 1..Len(layout_runs(b)) :
              /\ layout_runs(b)[k].line_i = i - 1
              /\ \E gi \in 1..Len(layout_runs(b)[k].glyphs) :
                    layout_runs(b)[k].glyphs[gi].start = idx - DocStart(b, i)}

\* C19: hit_position and hit are approximate inverses: with scroll not
\* negative, for a byte offset idx covered by a visible glyph, hit at the
\* point hit_position(idx) returned gives Some cursor on the text line of idx
\* whose index is idx (counted within the line) or a glyph boundary next to
\* it.
HitInvertsPosition ==
    [][(/\ last.op = "hit_position"
        /\ last'.op = "hit"
        /\ last'.x = last.ret.x
        /\ last'.y = last.ret.y
        /\ buffer.scroll >= 0
        /\ CoveredIn(buffer, last.idx) # {}) =>
           \A i \in CoveredIn(buffer, last.idx) :
               /\ last'.ret # <<>>
               /\ last'.ret[1].line = i - 1
               /\ last'.ret[1].index \in
                     ((last.idx - DocStart(buffer, i)) - 1)
                         ..((last.idx - DocStart(buffer, i)) + 1)]_vars

\* C20: whenever layout_runs() yields a run (scroll not negative), hit(x, y)
\* returns Some cursor for every point, its line a valid record index and its
\* index at most the length of that line's text; for y at or below the
\* bottom of the last run it is the end of the last run's last glyph.
HitTotal ==
    (last.op = "hit" /\ buffer.scroll >= 0 /\ layout_runs(buffer) # <<>>) =>
        LET runs == layout_runs(buffer)
            run == runs[Len(runs)]
        IN  /\ last.ret # <<>>
            /\ last.ret[1].line < Len(buffer.lines)
            /\ last.ret[1].index <= Len(buffer.lines[last.ret[1].line + 1].text)
            /\ last.y >= run.line_y =>
                  /\ last.ret[1].line = run.line_i
                  /\ last.ret[1].index =
                        IF Len(run.glyphs) > 0
                        THEN run.glyphs[Len(run.glyphs)].end ELSE 0

\* C21: when y is above every visible run, hit(x, y) returns the cursor at
\* document start, line 0 and index 0, for every x and every scroll offset.
HitAboveIsDocumentStart ==
    (/\ last.op = "hit"
     /\ buffer.scroll >= 0
     /\ layout_runs(buffer) # <<>>
     /\ last.y < layout_runs(buffer)[1].line_y
                  - layout_runs(buffer)[1].line_height) =>
        /\ last.ret # <<>>
        /\ last.ret[1].line = 0
        /\ last.ret[1].index = 0

(***************************************************************************)
(* Properties of hit_point.                                                *)
(***************************************************************************)
\* C22: hit_point resolves line and index as hit does: when hit returns a
\* cursor, hit_point returns that cursor's line and index; when hit returns
\* None, hit_point returns line 0, index 0 and is_inside false.
HitPointAgreesWithHit ==
    last.op = "hit_point" =>
        LET h == hit(buffer, last.x, last.y)
        IN  /\ h # <<>> => /\ last.ret.line = h[1].line
                           /\ last.ret.index = h[1].index
            /\ h = <<>> => last.ret = HitPoint_new(0, 0, FALSE)

\* hit_point has answered for a point on the right half of a glyph of the
\* second text line
HitPointAgreesWithHitWitness ==
    /\ last.op = "hit_point"
    /\ hit(buffer, last.x, last.y) # <<>>
    /\ last.ret.line = 1
    /\ last.ret.index = 2

\* the point (x, y) lies in the band of a visible run and in the span
\* [x, x + w] of one of its glyphs
OnGlyph(b, x, y) ==
    \E k \in 1..Len(layout_runs(b)) :
        LET run == layout_runs(b)[k]
        IN  /\ y >= run.line_y - run.line_height
            /\ y < run.line_y
            /\ \E g \in 1..Len(run.glyphs) :
                  /\ x >= run.glyphs[g].x
                  /\ x <= run.glyphs[g].x + run.glyphs[g].w

\* C23: hit_point reports is_inside = true only for a point inside the band
\* of a run and inside the horizontal span of a glyph; a point left of the
\* content (x < 0 on a left-to-right run) is reported with is_inside false.
IsInsideOnlyOnGlyph ==
    (/\ last.op = "hit_point"
     /\ buffer.scroll >= 0
     /\ last.ret.is_inside) => OnGlyph(buffer, last.x, last.y)

(***************************************************************************)
(* Properties of hit_position and line_col_position.                       *)
(***************************************************************************)
\* every record is wrapped and every Layout Line is shown
FullyVisible(b) ==
    /\ b.scroll = 0
    /\ AllWrapped(b)
    /\ Len(layout_runs(b)) = Len(Flat(b, 1))

\* C24: on a fully visible text of lines separated by single line feeds, for
\* a document byte offset idx on a glyph of text line L (one byte per line
\* break), hit_position(idx) returns line = L and the x of that glyph, also
\* when lines are empty or wrapped into several Layout Lines.
HitPositionOnGlyph ==
    (last.op = "hit_position" /\ FullyVisible(buffer)) =>
        \A i \in CoveredIn(buffer, last.idx) :
            /\ last.ret.line = i - 1
            /\ \E k \in 1..Len(layout_runs(buffer)) :
                  LET run == layout_runs(buffer)[k]
                  IN  /\ run.line_i = i - 1
                      /\ \E gi \in 1..Len(run.glyphs) :
                            /\ run.glyphs[gi].start = last.idx - DocStart(buffer, i)
                            /\ last.ret.x = run.glyphs[gi].x

\* the indices (from 1) of the runs of text line `line`
RunsOf(b, line) ==
    {k \in 1..Len(layout_runs(b)) : layout_runs(b)[k].line_i = line}

Boundaries(b, c) ==
    LET layout == b.lines[c.line + 1].layout_opt[1]
    IN  {s \in UNION {{<<j, i, 0>>, <<j, i, 1>>} :
                        j \in 1..Len(layout),
                        i \in 1..Len(b.lines[c.line + 1].text)} :
            /\ s[2] <= Len(GlyphsOf(layout[s[1]]))
            /\ LET gl == GlyphsOf(layout[s[1]])[s[2]]
                   at_start == Cursor_new_with_affinity(c.line, gl.start, "After")
                   at_end == Cursor_new_with_affinity(c.line, gl.end, "Before")
               IN  c = IF (s[3] = 0) = gl.ltr THEN at_start ELSE at_end}

\* boundary s comes no later than boundary t in scan order
ScannedFirst(s, t) ==
    \/ s[1] < t[1]
    \/ s[1] = t[1] /\ s[2] < t[2]
    \/ s[1] = t[1] /\ s[2] = t[2] /\ s[3] <= t[3]

LayoutCursorFailure ==
    /\ last.op = "layout_cursor" =>
          LET c == last.cursor
              missing == \/ c.line >= Len(buffer.lines)
                         \/ buffer.lines[c.line + 1].layout_opt = <<>>
          IN  /\ missing => last.panicked /\ last.ret = <<>> /\ buffer.panicked
              /\ ~missing =>
                    /\ ~last.panicked
                    /\ ~buffer.panicked
                    /\ last.ret # <<>>
                    /\ Boundaries(buffer, c) = {} =>
                          last.ret[1] = [line |-> c.line, layout |-> 0,
                                         glyph |-> 0]
    /\ last.op = "shape_until_cursor" => ~buffer.panicked

\* C27 witness: layout_cursor was called with a line past the last Line
\* Record and panicked
LayoutCursorFailureWitness ==
    /\ last.op = "layout_cursor"
    /\ last.cursor.line >= Len(buffer.lines)
    /\ last.panicked

(***************************************************************************)
(* Properties of LayoutRun::highlight.                                     *)
(***************************************************************************)
\* the x of the glyph boundaries of the run whose boundary cursor lies in
\* [cursor_start, cursor_end]
BoundaryXs(run, cursor_start, cursor_end) ==
    UNION {{x \in {run.glyphs[g].x, run.glyphs[g].x + run.glyphs[g].w} :
              LET at_x == IF (x = run.glyphs[g].x) = ~run.rtl
                          THEN Cursor_new_with_affinity(
                                   run.line_i, run.glyphs[g].start, "After")
                          ELSE Cursor_new_with_affinity(
                                   run.line_i, run.glyphs[g].end, "Before")
              IN  Cursor_le(cursor_start, at_x) /\ Cursor_le(at_x, cursor_end)} :
           g \in 1..Len(run.glyphs)}

\* the range holds a glyph boundary of the run, or the run has no glyphs and
\* its line lies between the lines of the two cursors
Intersects(run, cursor_start, cursor_end) ==
    \/ BoundaryXs(run, cursor_start, cursor_end) # {}
    \/ /\ Len(run.glyphs) = 0
       /\ cursor_start.line < run.line_i
       /\ run.line_i < cursor_end.line

\* C28: highlight(cursor_start, cursor_end) returns None exactly when the
\* range does not intersect the run; otherwise Some((x_left, width)) with
\* width >= 0, from the leftmost to the rightmost x of the glyph boundaries
\* whose cursor lies in the range; a run with no glyphs whose line lies
\* inside the range yields Some with width zero, not None.
HighlightIntersects ==
    last.op = "highlight" =>
        LET xs == BoundaryXs(last.run, last.start, last.end)
        IN  /\ last.ret = <<>> <=> ~Intersects(last.run, last.start, last.end)
            /\ last.ret # <<>> => last.ret[1].w >= 0
            /\ (last.ret # <<>> /\ xs # {}) =>
                  /\ \A x \in xs : last.ret[1].x <= x
                  /\ last.ret[1].x \in xs
                  /\ last.ret[1].x + last.ret[1].w \in xs
                  /\ \A x \in xs : x <= last.ret[1].x + last.ret[1].w
            /\ (Len(last.run.glyphs) = 0
                  /\ last.start.line < last.run.line_i
                  /\ last.run.line_i < last.end.line) =>
                  last.ret # <<>> /\ last.ret[1].w = 0

(***************************************************************************)
(* Properties of the fonts.                                                *)
(***************************************************************************)
\* the families of the scripts from script k on, script by script
RECURSIVE ScriptOrder(_, _)
ScriptOrder(scripts, k) ==
    IF k > Len(scripts) THEN <<>>
    ELSE script_fallback(scripts[k]) \o ScriptOrder(scripts, k + 1)

\* the families in the order of the four phases
FullOrder(it) ==
    it.default_families \o ScriptOrder(it.scripts, 1)
        \o common_fallback \o forbidden_fallback

\* how many families of FullOrder the iterator has gone past
Passed(it) ==
    it.default_i
    + (Len(ScriptOrder(it.scripts, 1))
         - Len(ScriptOrder(it.scripts, it.script_i[1] + 1)))
    + it.script_i[2] + it.common_i + it.other_i

\* the family resolves to a font that loads
Usable(fs, family) == fs.db[family] = "ok"

\* C29: next() walks the families in the fixed order default families, each
\* script's families, common families, forbidden families: a call passes
\* only families that give no font (no id, or a font that fails to load),
\* yields the font of the first usable family after them, and returns None
\* only when no usable family is left, so no font of a later phase comes
\* before a usable one of an earlier phase.
FallbackPhaseOrder ==
    [][last'.op = "next" =>
        LET order == FullOrder(iter)
            p == Passed(iter)
            q == Passed(iter')
            skipped == (p + 1)..(IF last'.ret # <<>> THEN q - 1 ELSE q)
        IN  /\ FullOrder(iter') = order
            /\ p <= q /\ q <= Len(order)
            /\ \A k \in skipped : ~Usable(font_system, order[k])
            /\ last'.ret # <<>> =>
                  /\ q > p
                  /\ Usable(font_system, order[q])
                  /\ last'.ret[1].id = order[q]
            /\ last'.ret = <<>> => q = Len(order) /\ iter'.end]_vars

\* C29 witness: with one default family broken and the other missing, and
\* no font for the scripts, a call yielded the font of the second common
\* family
FallbackPhaseOrderWitness ==
    /\ last.op = "next"
    /\ last.ret # <<>>
    /\ last.ret[1].id = "C2"
    /\ iter.default_families = <<"A", "B">>
    /\ font_system.db["A"] = "broken"
    /\ font_system.db["B"] = "none"
    /\ Len(iter.scripts) = 2

\* what the calls of op for key have returned to the threads so far
Returned(op, key) ==
    {threads[t].ret[1][3] :
        t \in {u \in Threads : /\ threads[u].ret # <<>>
                               /\ threads[u].ret[1][1] = op
                               /\ threads[u].ret[1][2] = key}}

\* C30: under every interleaving of get_font and get_font_matches calls of
\* the threads, the font of an id is constructed at most once and every call
\* for the id returns the one cached result, the cached absence of a font
\* that failed to load included; the match list of a fingerprint is computed
\* at most once and every call returns that list.
CachedOnce ==
    /\ \A id \in Families :
          /\ font_system.built[id] <= 1
          /\ Returned("get_font", id) # {} =>
                /\ font_system.font_cache[id].present
                /\ Returned("get_font", id) = {font_system.font_cache[id].value}
                /\ font_system.font_cache[id].value =
                      IF font_system.db[id] = "ok"
                      THEN <<[id |-> id, arc |-> 1]>> ELSE <<>>
    /\ \A k \in FontAttrsInputs :
          /\ font_system.built_matches[k] <= 1
          /\ Returned("get_font_matches", k) # {} =>
                /\ font_system.font_matches_cache[k].present
                /\ Returned("get_font_matches", k) =
                      {font_system.font_matches_cache[k].value}

\* C30 witness: thread 1 missed the font under the read lock, thread 2 built
\* and returned it meanwhile, and thread 1, now holding the write lock,
\* finds the entry occupied
CachedOnceWitness ==
    /\ threads[1].pc = "font_cache_entry"
    /\ font_system.font_cache[threads[1].key[2]].present
    /\ threads[2].ret # <<>>
    /\ threads[2].ret[1][1] = "get_font"
    /\ threads[2].ret[1][2] = threads[1].key[2]
    /\ threads[2].pc = "idle"

(***************************************************************************)
(* Properties of set_text: carriage returns and start offsets.             *)
(***************************************************************************)
\* the positions (from 1) of the carriage returns of a text that no line
\* feed follows at once
LoneCRPos(text) ==
    {p \in 1..Len(text) : text[p] = CR /\ (p = Len(text) \/ text[p + 1] # LF)}

\* the carriage returns in the texts of the records from i on
RECURSIVE KeptCRs(_, _)
KeptCRs(lines, i) ==
    IF i > Len(lines) THEN 0
    ELSE Cardinality({p \in 1..Len(lines[i].text) : lines[i].text[p] = CR})
         + KeptCRs(lines, i + 1)

\* C31: set_text strips a carriage return only as part of a "\r\n"
\* terminator: every lone "\r", the last byte of the text included, stays in
\* the text of a Line Record, and none starts a new Line Record.
SetTextKeepsLoneCR ==
    SetTextReturned =>
        /\ KeptCRs(buffer.lines, 1) = Cardinality(LoneCRPos(last.text))
        /\ Len(buffer.lines) <= Cardinality(LFPos(last.text)) + 1

\* C32: after set_text(text, attrs) the start stored in Line Record i is the
\* byte offset in the text at which line i begins, every byte of the earlier
\* lines and of their "\n" or "\r\n" terminators counted once: the offset at
\* which the attribute map was split for that line.
SetTextStartOffsets ==
    SetTextReturned =>
        \A i \in 0..(Len(buffer.lines) - 1) :
            i <= Cardinality(LFPos(last.text)) =>
                buffer.lines[i + 1].start = LineStart(last.text, i)

(***************************************************************************)
(* Properties of Attrs::compatible.                                        *)
(***************************************************************************)
SameFont(a, b) ==
    /\ a.family = b.family
    /\ a.monospaced = b.monospaced
    /\ a.stretch = b.stretch
    /\ a.style = b.style
    /\ a.weight = b.weight

\* C33: compatible(a, b) is true exactly when family list, monospace flag,
\* stretch, style and weight are equal, whatever the color, metadata, font
\* size and line height are; it is reflexive, symmetric and transitive, and
\* a == b implies compatible(a, b).
CompatibleIsFontEquality ==
    last.op = "compatible" =>
        /\ last.ab = SameFont(last.a, last.b)
        /\ last.aa
        /\ last.ab = last.ba
        /\ (last.ab /\ last.bc) => last.ac
        /\ last.eq => last.ab

\* compatible attributes that differ in a field outside the font, with a
\* third one compatible with both
CompatibleIsFontEqualityWitness ==
    /\ last.op = "compatible"
    /\ last.ab /\ last.bc /\ last.ac
    /\ ~last.eq
    /\ last.a.color # last.b.color
    /\ last.b.font_size # last.c.font_size
    /\ last.a.weight = 700

(***************************************************************************)
(* Properties of the order of cursors.                                     *)
(***************************************************************************)
\* C34: cursors are totally ordered by line, then index, then affinity with
\* Before < After: exactly one of <, =, > holds for two cursors, the order is
\* transitive, a cursor on an earlier line, or on the same line at a smaller
\* index, is smaller whatever the affinities are, and Cursor::new and the
\* default cursor have affinity Before.
CursorOrderLexicographic ==
    last.op = "cmp" =>
        /\ (last.ab = "Equal") = (last.a = last.b)
        /\ (last.ab = "Less") = (last.ba = "Greater")
        /\ (last.ab = "Greater") = (last.ba = "Less")
        /\ (last.ab = "Less" /\ last.bc = "Less") => last.ac = "Less"
        /\ last.a.line < last.b.line => last.ab = "Less"
        /\ (last.a.line = last.b.line /\ last.a.index < last.b.index)
              => last.ab = "Less"
        /\ (last.a.line = last.b.line /\ last.a.index = last.b.index
              /\ last.a.affinity = "Before" /\ last.b.affinity = "After")
              => last.ab = "Less"
        /\ Cursor_le(last.a, last.b) = (last.ab # "Greater")
        /\ last.new = [line |-> last.a.line, index |-> last.a.index,
                       affinity |-> "Before"]
        /\ last.default = [line |-> 0, index |-> 0, affinity |-> "Before"]

\* an After cursor on an earlier line below a Before cursor, itself below the
\* After cursor at the same place
CursorOrderLexicographicWitness ==
    /\ last.op = "cmp"
    /\ last.ab = "Less" /\ last.bc = "Less" /\ last.ac = "Less"
    /\ last.a.line < last.b.line
    /\ last.a.affinity = "After" /\ last.b.affinity = "Before"
    /\ last.b.line = last.c.line /\ last.b.index = last.c.index

(***************************************************************************)
(* Properties of the layout caches.                                        *)
(***************************************************************************)
\* C35: layout caches are never stale: after every call, every Line Record
\* with a cached layout has a cached shape, and the layout is that shape
\* wrapped at the buffer's current width and wrap mode.
LayoutCachesFresh ==
    \A i \in 1..Len(buffer.lines) :
        buffer.lines[i].layout_opt # <<>> =>
            /\ buffer.lines[i].shape_opt # <<>>
            /\ buffer.lines[i].layout_opt[1] =
                   ShapeLine_layout(buffer.lines[i].shape_opt[1],
                                    buffer.width, buffer.wrap)

\* set_wrap turned wrapping off on a narrow buffer: a record of three glyphs
\* that was wrapped into two Layout Lines now has one
LayoutCachesFreshWitness ==
    /\ last.op = "set_wrap"
    /\ ~buffer.panicked
    /\ buffer.wrap = "None"
    /\ buffer.width = 2
    /\ \E i \in 1..Len(buffer.lines) :
          /\ Len(buffer.lines[i].text) = 3
          /\ buffer.lines[i].layout_opt # <<>>
          /\ Len(buffer.lines[i].layout_opt[1]) = 1

(***************************************************************************)
(* Properties of the scroll arithmetic.                                    *)
(***************************************************************************)
\* C36: scroll arithmetic stays within the signed 32-bit range: whatever
\* scroll set_scroll has stored, shape_until_scroll, in a build that checks
\* overflow, returns instead of aborting on an addition or subtraction.
ScrollArithmeticInRange ==
    last.op = "shape_until_scroll" => ~buffer.panicked

(***************************************************************************)
(* Properties of the length the run iterator reports.                      *)
(***************************************************************************)
\* the length reported by the iterator it, and by the iterator after each
\* run it yields, is the number of runs still to come
RECURSIVE LenExact(_, _)
LenExact(b, it) ==
    /\ it.remaining_len = Len(collect(b, it))
    /\ LET r == LayoutRunIter_next(b, it)
       IN  r.item # <<>> => LenExact(b, r.it)

\* C37: the exact-size promise of the run iterator holds: the length
\* layout_runs() reports before iteration is the number of runs it then
\* yields, and the length reported after each run is the number of runs still
\* to come.
RunsLenExact ==
    last.op = "layout_runs" => LenExact(buffer, LayoutRunIter_new(buffer))

(***************************************************************************)
(* Termination of FontFallbackIter.                                        *)
(***************************************************************************)
\* the script index pair a is at or before b: by script, then by family
ScriptIndexLe(a, b) == a[1] < b[1] \/ (a[1] = b[1] /\ a[2] <= b[2])

\* C38: FontFallbackIter terminates and is fused: a call of next() never
\* moves a phase index back (the script index pair in its order by script,
\* then family), every yielded font moves the iterator past at least one
\* more candidate position, so that at most |default families| + the sum of
\* the script family list lengths + |common| + |forbidden| fonts are yielded,
\* a call that returns None sets the end flag, every call after that returns
\* None, and the iteration reaches its end.
FallbackTerminates ==
    /\ [][last'.op = "next" =>
            /\ iter.default_i <= iter'.default_i
            /\ ScriptIndexLe(iter.script_i, iter'.script_i)
            /\ iter.common_i <= iter'.common_i
            /\ iter.other_i <= iter'.other_i
            /\ Passed(iter') <= Len(FullOrder(iter'))
            /\ last'.ret # <<>> => Passed(iter') > Passed(iter)
            /\ last'.ret = <<>> => iter'.end
            /\ iter.end => (last'.ret = <<>> /\ iter'.end)]_vars
    /\ <>[](iter.end /\ last.op = "next" /\ last.ret = <<>>)

\* the iterator yielded the font of the last forbidden family after passing
\* every other candidate, and has not yet reported its end
FallbackTerminatesWitness ==
    /\ last.op = "next"
    /\ last.ret # <<>>
    /\ last.ret[1].id = "F1"
    /\ ~iter.end
    /\ iter.scripts = <<"t", "s">>
    /\ iter.default_families = <<"A", "B">>
    /\ Passed(iter) = Len(FullOrder(iter))

(***************************************************************************)
(* Deadlock freedom of the FontSystem.                                     *)
(***************************************************************************)
\* thread t cannot go on: it is at a write() of a lock somebody holds, or at
\* a read() of a lock that is held for writing or that another thread waits
\* to write (the lock lets no reader overtake a waiting writer)
Blocked(t) ==
    /\ Wanted(t) # <<>>
    /\ IF WantsWrite(t)
       THEN \E u \in Threads : Holds(u, Wanted(t)[1])
       ELSE \/ LockOf(Wanted(t)[1]).writer # <<>>
            \/ \E u \in Threads \ {t} : WantsWrite(u) /\ Wanted(u) = Wanted(t)

\* thread t waits for name2 while it holds name1
WaitsHolding(t, name1, name2) == Holds(t, name1) /\ Wanted(t) = <<name2>>

LocksSafe ==
    /\ \A t \in Threads : Wanted(t) # <<>> => ~Holds(t, Wanted(t)[1])
    /\ \A t \in Threads :
          /\ ~WaitsHolding(t, "db", "font_cache")
          /\ ~WaitsHolding(t, "db", "font_matches_cache")
          /\ ~WaitsHolding(t, "font_cache", "font_matches_cache")
          /\ ~WaitsHolding(t, "font_matches_cache", "font_cache")
    /\ (\E t \in Threads : threads[t].pc # "idle") =>
          \E t \in Threads : threads[t].pc # "idle" /\ ~Blocked(t)

\* C39: the font system is deadlock-free: under every interleaving of
\* get_font, get_font_matches, face_contains_family, face_contains_family_name
\* and face_name calls of the threads, no thread waits for a lock it already
\* holds, no thread waits for a lock while holding one later in the order
\* cache before database, some thread inside a call can always go on, and
\* every call returns.
FontSystemDeadlockFree ==
    \A t \in Threads :
        [](/\ LocksSafe
           /\ threads[t].pc # "idle" => <>(threads[t].pc = "idle"))

\* thread 1 holds the write lock of the font cache and waits for the write
\* lock of the database, which thread 2 holds for reading in a face query
FontSystemDeadlockFreeWitness ==
    /\ threads[1].pc = "db_write"
    /\ font_system.font_cache_lock.writer = <<1>>
    /\ threads[2].pc = "face_return"
    /\ 2 \in font_system.db_lock.readers

(***************************************************************************)
(* Properties of FamilyOwned::parse_list.                                   *)
(***************************************************************************)
\* the list a comma-separated source stands for: one family per segment
\* that is not blank, trimmed; a segment opening with a quote is the name up
\* to the closing quote, whatever it spells; any other segment is a generic
\* family when it spells one and a name otherwise
RECURSIVE FamiliesFrom(_, _)
FamiliesFrom(s, p) ==
    IF p >= Len(s) THEN <<>>
    ELSE IF is_whitespace(s[p + 1]) \/ s[p + 1] = "," THEN FamiliesFrom(s, p + 1)
    ELSE IF s[p + 1] \in {DQ, SQ}
    THEN LET close == find_byte(s, Len(s), p + 1, s[p + 1])
             comma == find_byte(s, Len(s), Min(close + 1, Len(s)), ",")
         IN  <<Name(trim(get(s, p + 1, close)))>> \o FamiliesFrom(s, comma + 1)
    ELSE LET comma == find_byte(s, Len(s), p, ",")
             name  == trim(get(s, p, comma))
             lower == to_lowercase(name)
             generic == [n \in {Str_serif, Str_sans_serif, Str_monospace,
                                Str_cursive, Str_fantasy} |->
                            CASE n = Str_serif -> <<"Serif">>
                              [] n = Str_sans_serif -> <<"SansSerif">>
                              [] n = Str_monospace -> <<"Monospace">>
                              [] n = Str_cursive -> <<"Cursive">>
                              [] n = Str_fantasy -> <<"Fantasy">>]
         IN  <<IF lower \in DOMAIN generic THEN generic[lower] ELSE Name(name)>>
                 \o FamiliesFrom(s, comma + 1)

\* a call of next either returned None at the end of the input or moved on
NextProgress ==
    last.op = "next" =>
        \/ last.ret = <<>> /\ last.self.pos = last.self.len
        \/ last.ret # <<>> /\ last.self.pos > last.prev

\* an empty name is yielded only for a quoted element
NoEmptyUnquoted ==
    (last.op = "next" /\ last.ret = <<Name(<<>>)>>) =>
        \E p \in (last.prev + 1)..last.self.pos : last.self.source[p] \in {DQ, SQ}

\* the families yielded so far are the first of the list the source stands
\* for, and all of it once next has returned None
YieldsFamilies ==
    last.op = "next" =>
        LET want == FamiliesFrom(last.self.source, 0) IN
        /\ Len(last.items) <= Len(want)
        /\ last.items = SubSeq(want, 1, Len(last.items))
        /\ last.ret = <<>> => last.items = want

\* C40: every call of next on a parse_list iterator returns None at the end
\* of the input or strictly advances the position; the families yielded are
\* one per non-blank comma-separated segment, in order and trimmed, never
\* an empty unquoted name, unquoted generic keywords in any letter case as
\* the generic families and every other unquoted name as Name, a quoted
\* name always as Name without its quotes
ParseListYieldsSegments ==
    /\ NextProgress
    /\ NoEmptyUnquoted
    /\ YieldsFamilies

====
